---- MODULE Spec2Model ----
(***************************************************************************)
(* DANE: the task dependency and cascade-orchestration state machine.      *)
(*                                                                         *)
(* The store (Elasticsearch index), the work queue and the reply queue     *)
(* (RabbitMQ) are the shared state.  Every operation of the handler        *)
(* (ESHandler) is executed by a thread, one store / queue request per      *)
(* step; every worker (base_worker) is one process per task key.           *)
(***************************************************************************)
EXTENDS Integers, Sequences, FiniteSets, TLC

VARIABLES
    cfg,        \* the deployment: scheduling, workers' depends_on, reply states
    docs,       \* ids of the documents registered in the index
    store,      \* the task records of the index
    queue,      \* work queue: message -> number of ready copies
    replies,    \* response queue, FIFO, consumed by the orchestrator
    th,         \* handler threads (API callers and the callback consumer)
    wk,         \* worker processes, one per task key
    snap,       \* store and queue when the running operation started
    assignLog,  \* per (document, key): assignTask calls returned / TaskAssignedError / other
    nops,       \* API operations started so far: assign, and the others
    box,        \* a client's task container and the last operation applied to it
    tobj,       \* a client's Task objects: key, _id, state
    fn,         \* argument and result of a library function under test
    proc        \* one worker process in detail: consume loop, channel, callback threads

\* the client-side objects and the detailed worker process, which the handler
\* and the workers of the coarse model never touch
lib == <<box, tobj, fn, proc>>

\* the index, the queues, the threads and the workers
sys == <<cfg, docs, store, queue, replies, th, wk, snap, assignLog, nops>>

vars == <<cfg, docs, store, queue, replies, th, wk, snap, assignLog, nops, box, tobj, fn, proc>>

----------------------------------------------------------------------------
(* ProcState *)
SUCCESS == 200
CREATED == 201
QUEUED == 102
TASK_RESET == 205
BAD_REQUEST == 400
ACCESS_DENIED == 403
NOT_FOUND == 404
ALREADY_EXISTS == 409
UNFINISHED_DEPENDENCY == 412
NO_ROUTE_TO_QUEUE == 422
ERROR == 500
ERROR_INVALID_INPUT == 502
ERROR_PROXY == 503

ProcState ==
    { SUCCESS, CREATED, QUEUED, TASK_RESET, BAD_REQUEST, ACCESS_DENIED,
      NOT_FOUND, ALREADY_EXISTS, UNFINISHED_DEPENDENCY, NO_ROUTE_TO_QUEUE,
      ERROR, ERROR_INVALID_INPUT, ERROR_PROXY }

----------------------------------------------------------------------------
(* Bounds *)
MaxAssign == 3      \* Task.assign calls per behaviour
MaxOps == 2         \* Task.run, Task.retry and Task.reset calls per behaviour
MaxForeign == 1     \* messages of other publishers per behaviour
MaxNodes == 3       \* tasks and nested containers in a task container
MaxIds == 2         \* document ids in one assignTaskToMany call
MaxDeps == 2        \* keys in the depends_on of the worker whose check is examined
MaxMsgs == 2        \* ready copies of a message when the detailed worker process starts

Docs == {"d1", "d2"}
Keys == {"A", "B", "C"}
Clients == {"c1", "c2"}
Threads == Clients \cup {"cb"}

----------------------------------------------------------------------------
(* Python values *)

\* an attribute that may be None: {} is None, {v} is the value v
None == {}
Some(v) == {v}
The(o) == CHOOSE v \in o : TRUE

----------------------------------------------------------------------------
(* The index *)

\* _id = sha1(document_id + task.key): the concatenation, hashed without collision
TaskId(document_id, key) == document_id \o key

\* a message of the work queue of worker `key`: the correlation id is a property
\* of the message, its body is the task and the document
TaskMessage(task_id, key, document_id) ==
    [corr |-> task_id, key |-> key, doc |-> document_id, body |-> "task+document"]

\* bodies a worker can receive from another publisher: one that does not decode
\* to an object with a task and a document section, and one whose sections are
\* there but do not fit Task(**task) / Document(**document)
ForeignBodies == {"incomplete", "badformat"}

ForeignMsgs ==
    { [corr |-> TaskId(d, k), key |-> k, doc |-> "", body |-> b] :
        d \in Docs, k \in Keys, b \in ForeignBodies }

Msgs == { TaskMessage(TaskId(d, k), k, d) : d \in Docs, k \in Keys } \cup ForeignMsgs

TaskRecord(id, document_id, key, state, msg) ==
    [id |-> id, parent |-> document_id, key |-> key, state |-> state, msg |-> msg]

EsConflict_Index(st, id) == FALSE

\* es.index(op_type="create"): ConflictError iff the id is taken
EsConflict(st, id) == \E t \in st : t.id = id

EsCreate(st, rec) == st \cup {rec}

updateTaskState_MsgOnly(st, task_id, state, message) ==
    { IF t.id = task_id THEN [t EXCEPT !.msg = message] ELSE t : t \in st }

\* es.update of task.state and task.msg
updateTaskState(st, task_id, state, message) ==
    { IF t.id = task_id THEN [t EXCEPT !.state = state, !.msg = message] ELSE t : t \in st }

\* the update raises NotFoundError when the id is not in the index
EsMissing(st, task_id) == ~ \E t \in st : t.id = task_id

\* has_parent document query matching the task id
taskFromTaskId(st, ds, task_id) == { t \in st : t.id = task_id /\ t.parent \in ds }

\* has_child task query matching the task id
documentFromTaskId(st, ds, task_id) ==
    { d \in ds : \E t \in st : t.id = task_id /\ t.parent = d }

getAssignedTasks_AllDocuments(st, document_id) == st

\* tasks routed to the document
getAssignedTasks(st, document_id) == { t \in st : t.parent = document_id }

\* the record of task id in the store
StoredTask(st, id) == CHOOSE x \in st : x.id = id

\* the store with the record of task id set to (state, msg) and nothing else changed
StoreWith(st, id, state, msg) ==
    (st \ {StoredTask(st, id)})
        \cup {[StoredTask(st, id) EXCEPT !.state = state, !.msg = msg]}

\* the queue with one more copy of the message of task id
QueuePlus(q, st, id) ==
    LET x == StoredTask(st, id)
    IN  [q EXCEPT ![TaskMessage(id, x.key, x.parent)] = @ + 1]

----------------------------------------------------------------------------
(* State gating *)

\* mutant: the branch for a fresh task is lost
RunQueues_WithNotFound(state) ==
    state \in {CREATED, TASK_RESET, UNFINISHED_DEPENDENCY, ERROR_INVALID_INPUT, ERROR_PROXY,
               NOT_FOUND}

RunQueues_NoCreated(state) ==
    state \in {TASK_RESET, UNFINISHED_DEPENDENCY, ERROR_INVALID_INPUT, ERROR_PROXY}

\* mutant: ERROR counted among the states worth an automatic retry
RunQueues_WithError(state) ==
    \/ state = CREATED
    \/ state \in {TASK_RESET, UNFINISHED_DEPENDENCY, ERROR, ERROR_INVALID_INPUT, ERROR_PROXY}

RunQueues_WithQueued(state) ==
    \/ state = CREATED
    \/ state \in {TASK_RESET, UNFINISHED_DEPENDENCY, ERROR_INVALID_INPUT, ERROR_PROXY, QUEUED}

\* ESHandler.run: the states it queues from
RunQueues(state) ==
    \/ state = CREATED
    \/ state \in {TASK_RESET, UNFINISHED_DEPENDENCY, ERROR_INVALID_INPUT, ERROR_PROXY}

\* mutant: force is ignored
RetryQueues_NoForce(state, force) == state \notin {QUEUED, SUCCESS}

\* ESHandler.retry
RetryQueues(state, force) == state \notin {QUEUED, SUCCESS} \/ force

CallbackBranch_FailureCascades(state, hasDeps, deps) ==
    IF state = UNFINISHED_DEPENDENCY
    THEN IF ~hasDeps THEN "KeyError"
         ELSE IF Len(deps) > 0 THEN "callback_doc_deps" ELSE "callback_doc"
    ELSE "callback_doc"

\* ESHandler.callback: what follows the state update
CallbackBranch(state, hasDeps, deps) ==
    IF state = UNFINISHED_DEPENDENCY
    THEN IF ~hasDeps THEN "KeyError"
         ELSE IF Len(deps) > 0 THEN "callback_doc_deps" ELSE "callback_doc"
    ELSE IF state # SUCCESS THEN "return"
    ELSE "callback_doc"

CascadeRuns_NoWaiting(at, task_id, state) ==
    /\ at.id # task_id
    /\ at.state \in {CREATED, ERROR_INVALID_INPUT, ERROR_PROXY}

CascadeRuns_AlsoFromWaiting(at, task_id, state) ==
    /\ at.id # task_id
    /\ at.state \in {CREATED, ERROR_INVALID_INPUT, ERROR_PROXY, UNFINISHED_DEPENDENCY}

CascadeRuns_WithSelf(at, task_id, state) ==
    \/ at.id = task_id
    \/ at.state \in {CREATED, ERROR_INVALID_INPUT, ERROR_PROXY}
    \/ (at.state = UNFINISHED_DEPENDENCY /\ state # UNFINISHED_DEPENDENCY)

\* ESHandler.callback: which entries of getAssignedTasks the cascade runs
CascadeRuns(at, task_id, state) ==
    /\ at.id # task_id
    /\ \/ at.state \in {CREATED, ERROR_INVALID_INPUT, ERROR_PROXY}
       \/ (at.state = UNFINISHED_DEPENDENCY /\ state # UNFINISHED_DEPENDENCY)

----------------------------------------------------------------------------
(* Worker: dependency check *)

RECURSIVE CheckDeps(_, _, _, _)
RECURSIVE CheckDeps_MissingIsDone(_, _, _, _)
RECURSIVE CheckDeps_StopsCollecting(_, _, _, _)
CheckDeps_StopsCollecting(assigned_tasks, depends_on, done, dependencies) ==
    IF depends_on = <<>>
    THEN [done |-> done, missing |-> dependencies]
    ELSE LET dep == Head(depends_on)
             task_keys == { t.key : t \in assigned_tasks }
         IN  IF ~ done
             THEN CheckDeps_StopsCollecting(assigned_tasks, Tail(depends_on), done, dependencies)
             ELSE IF dep \notin task_keys
             THEN CheckDeps_StopsCollecting(assigned_tasks, Tail(depends_on), FALSE,
                                            Append(dependencies, dep))
             ELSE CheckDeps_StopsCollecting(assigned_tasks, Tail(depends_on),
                            ~ \E t \in assigned_tasks : t.key = dep /\ t.state # SUCCESS,
                            dependencies)

CheckDeps_MissingIsDone(assigned_tasks, depends_on, done, dependencies) ==
    IF depends_on = <<>>
    THEN [done |-> done, missing |-> dependencies]
    ELSE LET dep == Head(depends_on)
             task_keys == { t.key : t \in assigned_tasks }
         IN  IF dep \notin task_keys
             THEN CheckDeps_MissingIsDone(assigned_tasks, Tail(depends_on), done,
                                          Append(dependencies, dep))
             ELSE IF done
             THEN CheckDeps_MissingIsDone(assigned_tasks, Tail(depends_on),
                            ~ \E t \in assigned_tasks : t.key = dep /\ t.state # SUCCESS,
                            dependencies)
             ELSE CheckDeps_MissingIsDone(assigned_tasks, Tail(depends_on), done, dependencies)

CheckDeps(assigned_tasks, depends_on, done, dependencies) ==
    IF depends_on = <<>>
    THEN [done |-> done, missing |-> dependencies]
    ELSE LET dep == Head(depends_on)
             task_keys == { t.key : t \in assigned_tasks }
         IN  IF dep \notin task_keys
             THEN CheckDeps(assigned_tasks, Tail(depends_on), FALSE, Append(dependencies, dep))
             ELSE IF done
             THEN CheckDeps(assigned_tasks, Tail(depends_on),
                            ~ \E t \in assigned_tasks : t.key = dep /\ t.state # SUCCESS,
                            dependencies)
             ELSE CheckDeps(assigned_tasks, Tail(depends_on), done, dependencies)

check_task_dependencies_AssignedOnly(st, document_id, depends_on) ==
    LET c == CheckDeps(getAssignedTasks(st, document_id), depends_on, TRUE, <<>>)
    IN  [done |-> c.missing = <<>>, missing |-> c.missing]

check_task_dependencies(st, document_id, depends_on) ==
    IF Len(depends_on) > 0
    THEN CheckDeps(getAssignedTasks(st, document_id), depends_on, TRUE, <<>>)
    ELSE [done |-> TRUE, missing |-> <<>>]

\* _check_task_dependencies calls doc.getAssignedTasks() only inside
\* `if len(self.depends_on) > 0`
check_task_dependencies_queries(depends_on) == Len(depends_on) > 0

----------------------------------------------------------------------------
(* Threads and workers *)

IdleThread ==
    [ pc |-> "idle", op |-> "none", doc |-> "", key |-> "", task |-> "",
      force |-> FALSE, ret |-> "done", exc |-> "none",
      cbTask |-> "", cbState |-> 0, cbMsg |-> "", hasDeps |-> FALSE, cbDeps |-> <<>>, deps |-> <<>>,
      assigned |-> {}, ran |-> {}, created |-> {}, deleted |-> FALSE,
      obj |-> "", ids |-> <<>>, todo |-> <<>>, success |-> <<>>, failed |-> <<>>,
      caught |-> {} ]

NoMsg == [corr |-> "", key |-> "", doc |-> "", body |-> ""]
NoResp == [state |-> 0, message |-> "", hasDeps |-> FALSE, dependencies |-> <<>>]
\* what the worker did with the last delivery it settled (kept when cfg.wlog)
NoLast == [cause |-> "", settled |-> "", msg |-> NoMsg, state |-> 0]
IdleWorker == [pc |-> "idle", msg |-> NoMsg, resp |-> NoResp, cause |-> "", last |-> NoLast]

NoLog == [ok |-> 0, conflict |-> 0, failed |-> 0]

\* no container, no Task object and no function call: the specifications of the
\* handler and the workers leave the client-side objects out
NoBox == [kind |-> "none"]
NoObjects == <<>>
NoCall == [f |-> "none"]
NoProcess == [loop |-> "none"]

NoSnap == [store |-> {}, queue |-> [m \in Msgs |-> 0]]

Quiet ==
    /\ \A t \in Threads : th[t].pc = "idle"
    /\ \A w \in Keys : wk[w].pc = "idle"

\* under sequential scheduling an operation starts only when none is running
CanStart == cfg.seq => Quiet

Snapshot == IF cfg.seq THEN [store |-> store, queue |-> queue] ELSE NoSnap

\* a call returns to its caller: the API caller, or the callback's loops
Return(r) ==
    IF r.ret = "callback_dep_next"
    THEN [r EXCEPT !.pc = "callback_dep", !.deps = Tail(r.deps)]
    ELSE IF r.ret = "run_async_next"
    THEN [r EXCEPT !.pc = "run_async", !.todo = Tail(r.todo)]
    ELSE [r EXCEPT !.pc = r.ret]

\* an exception ends the operation: it reaches the API caller, or callback's
\* except; _run_async catches it and goes on with the next task
Raise(r, e) ==
    IF r.ret = "run_async_next"
    THEN [r EXCEPT !.pc = "run_async", !.todo = Tail(r.todo), !.caught = @ \cup {r.task}]
    ELSE [r EXCEPT !.pc = "done", !.exc = e]

----------------------------------------------------------------------------
(* API callers: Task.assign, Task.run, Task.retry, Task.reset *)

\* Task.assign on a fresh Task(key): _id is None, so api.assignTask is called
Task_assign(t, document_id, key) ==
    /\ th[t].pc = "idle" /\ CanStart /\ (cfg.log => nops.assign < cfg.maxAssign)
    /\ key \in cfg.keys
    /\ th' = [th EXCEPT ![t] = [IdleThread EXCEPT !.pc = "assignTask_get", !.op = "assign",
                                    !.doc = document_id, !.key = key]]
    /\ snap' = Snapshot
    /\ nops' = [nops EXCEPT !.assign = IF cfg.log THEN @ + 1 ELSE @]
    /\ UNCHANGED <<lib, cfg, docs, store, queue, replies, wk, assignLog>>

Task_assign_object_NoCheck(t, o, document_id) ==
    /\ th[t].pc = "idle" /\ CanStart /\ (cfg.log => nops.assign < cfg.maxAssign)
    /\ o \in DOMAIN tobj /\ tobj[o].key \in cfg.keys
    /\ th' = [th EXCEPT ![t] = [IdleThread EXCEPT !.pc = "assignTask_get", !.op = "assign",
                                    !.doc = document_id, !.key = tobj[o].key, !.obj = o]]
    /\ snap' = Snapshot
    /\ nops' = [nops EXCEPT !.assign = IF cfg.log THEN @ + 1 ELSE @]
    /\ UNCHANGED <<lib, cfg, docs, store, queue, replies, wk, assignLog>>

\* Task.assign on a Task object the caller holds: refused when it has an _id,
\* else api.assignTask(task=self, document_id)
Task_assign_object(t, o, document_id) ==
    /\ th[t].pc = "idle" /\ CanStart /\ (cfg.log => nops.assign < cfg.maxAssign)
    /\ o \in DOMAIN tobj /\ tobj[o].key \in cfg.keys
    /\ th' = [th EXCEPT ![t] =
                IF tobj[o]._id # None
                THEN [IdleThread EXCEPT !.pc = "done", !.op = "assign", !.exc = "APIRegistrationError",
                                        !.doc = document_id, !.key = tobj[o].key, !.obj = o]
                ELSE [IdleThread EXCEPT !.pc = "assignTask_get", !.op = "assign",
                                        !.doc = document_id, !.key = tobj[o].key, !.obj = o]]
    /\ snap' = Snapshot
    /\ nops' = [nops EXCEPT !.assign = IF cfg.log THEN @ + 1 ELSE @]
    /\ UNCHANGED <<lib, cfg, docs, store, queue, replies, wk, assignLog>>

\* Task.run on an assigned task
Task_run(t, task_id) ==
    /\ th[t].pc = "idle" /\ CanStart /\ nops.other < cfg.maxOps
    /\ \E x \in store : x.id = task_id
    /\ th' = [th EXCEPT ![t] = [IdleThread EXCEPT !.pc = "run_read", !.op = "run",
                                    !.task = task_id]]
    /\ snap' = Snapshot
    /\ nops' = [nops EXCEPT !.other = @ + 1]
    /\ UNCHANGED <<lib, cfg, docs, store, queue, replies, wk, assignLog>>

\* Task.retry(force) on an assigned task
Task_retry(t, task_id, force) ==
    /\ th[t].pc = "idle" /\ CanStart /\ nops.other < cfg.maxOps
    /\ \E x \in store : x.id = task_id
    /\ th' = [th EXCEPT ![t] = [IdleThread EXCEPT !.pc = "retry_read", !.op = "retry",
                                    !.task = task_id, !.force = force]]
    /\ snap' = Snapshot
    /\ nops' = [nops EXCEPT !.other = @ + 1]
    /\ UNCHANGED <<lib, cfg, docs, store, queue, replies, wk, assignLog>>

\* Task.reset on an assigned task
Task_reset(t, task_id) ==
    /\ th[t].pc = "idle" /\ CanStart /\ nops.other < cfg.maxOps
    /\ \E x \in store : x.id = task_id
    /\ th' = [th EXCEPT ![t] = [IdleThread EXCEPT !.pc = "reset_update", !.op = "reset",
                                    !.task = task_id]]
    /\ snap' = Snapshot
    /\ nops' = [nops EXCEPT !.other = @ + 1]
    /\ UNCHANGED <<lib, cfg, docs, store, queue, replies, wk, assignLog>>

reset_update_Publishes(t) ==
    /\ th[t].pc = "reset_update"
    /\ ~ EsMissing(store, th[t].task)
    /\ store' = updateTaskState(store, th[t].task, CREATED, "Reset")
    /\ queue' = QueuePlus(queue, store, th[t].task)
    /\ th' = [th EXCEPT ![t] = [th[t] EXCEPT !.pc = "done"]]
    /\ UNCHANGED <<lib, cfg, docs, replies, wk, snap, assignLog, nops>>

\* Task.reset: api.updateTaskState(self._id, 201, 'Reset')
reset_update(t) ==
    /\ th[t].pc = "reset_update"
    /\ IF EsMissing(store, th[t].task)
       THEN /\ th' = [th EXCEPT ![t] = Raise(th[t], "NotFoundError")]
            /\ store' = store
       ELSE /\ store' = updateTaskState(store, th[t].task, CREATED, "Reset")
            /\ th' = [th EXCEPT ![t] = [th[t] EXCEPT !.pc = "done"]]
    /\ UNCHANGED <<lib, cfg, docs, queue, replies, wk, snap, assignLog, nops>>

\* the outcome of an assignTask call for (document_id, key), when outcomes are logged
Logged(document_id, key, exc) ==
    IF ~cfg.log THEN assignLog
    ELSE IF exc = "none" THEN [assignLog EXCEPT ![<<document_id, key>>].ok = @ + 1]
    ELSE IF exc = "TaskAssignedError"
    THEN [assignLog EXCEPT ![<<document_id, key>>].conflict = @ + 1]
    ELSE [assignLog EXCEPT ![<<document_id, key>>].failed = @ + 1]

Propagates_TaskExistsOnly(r) ==
    r.exc # "none" /\ (r.op # "callback" \/ r.exc # "TaskExistsError")

\* whether the exception that ended the operation reaches its caller: callback
\* logs TaskExistsError and every other Exception inside its try
Propagates(r) == r.exc # "none" /\ r.op # "callback"

\* the caller has its result and the thread is free again; an exception out of
\* callback would end the consumer of the response queue
Finish(t) ==
    /\ th[t].pc = "done"
    /\ th' = [th EXCEPT ![t] = IF t = "cb" /\ Propagates(th[t])
                               THEN [th[t] EXCEPT !.pc = "crashed"]
                               ELSE IdleThread]
    /\ snap' = NoSnap
    /\ assignLog' = IF \/ th[t].op = "assign"
                       \/ (th[t].op = "callback" /\ th[t].exc = "TaskAssignedError")
                    THEN Logged(th[t].doc, th[t].key, th[t].exc)
                    ELSE assignLog
    /\ UNCHANGED <<lib, cfg, docs, store, queue, replies, wk, nops>>

----------------------------------------------------------------------------
(* ESHandler.assignTask *)

\* es.get(document_id)["found"]
assignTask_get(t) ==
    /\ th[t].pc = "assignTask_get"
    /\ th' = [th EXCEPT ![t] =
                IF th[t].doc \in docs
                THEN [th[t] EXCEPT !.pc = "assignTask_create"]
                ELSE Raise(th[t], "DocumentExistsError")]
    /\ UNCHANGED <<lib, cfg, docs, store, queue, replies, wk, snap, assignLog, nops>>

AssignedObject_IdFirst(o, id, created) ==
    IF o = "" THEN tobj
    ELSE [tobj EXCEPT ![o] =
            [@ EXCEPT !.state = Some(CREATED), !._id = Some(id),
                      !.n = IF created THEN @ + 1 ELSE @]]

\* what assignTask does to the Task object it was given (none when the task
\* was built by the handler itself): task.state = CREATED before es.index,
\* task._id = res["_id"] after it succeeded; n counts these assignments
AssignedObject(o, id, created) ==
    IF o = "" THEN tobj
    ELSE [tobj EXCEPT ![o] =
            [@ EXCEPT !.state = Some(CREATED),
                      !._id = IF created THEN Some(id) ELSE @,
                      !.n = IF created THEN @ + 1 ELSE @]]

\* es.index(id=_id, op_type="create") of the task in state CREATED, then task.run()
assignTask_create(t) ==
    /\ th[t].pc = "assignTask_create"
    /\ LET document_id == th[t].doc
           key == th[t].key
           id == TaskId(document_id, key)
       IN  IF EsConflict(store, id)
           THEN /\ th' = [th EXCEPT ![t] = Raise(th[t], "TaskAssignedError")]
                /\ store' = store
           ELSE /\ store' = EsCreate(store, TaskRecord(id, document_id, key, CREATED, "Created"))
                /\ th' = [th EXCEPT ![t] = [th[t] EXCEPT !.pc = "run_read", !.task = id,
                                                          !.created = @ \cup {id}]]
    /\ tobj' = AssignedObject(th[t].obj, TaskId(th[t].doc, th[t].key),
                              ~ EsConflict(store, TaskId(th[t].doc, th[t].key)))
    /\ UNCHANGED <<box, fn, proc, cfg, docs, queue, replies, wk, snap, assignLog, nops>>

----------------------------------------------------------------------------
(* ESHandler.assignTaskToMany, ESHandler._run_async *)

\* Task.assignMany on a fresh Task(key): api.assignTaskToMany(task, document_ids)
Task_assignMany(t, key, document_ids) ==
    /\ th[t].pc = "idle" /\ CanStart /\ nops.other < cfg.maxOps
    /\ key \in cfg.keys
    /\ th' = [th EXCEPT ![t] = [IdleThread EXCEPT !.pc = "assignTaskToMany_msearch",
                                    !.op = "assignMany", !.key = key, !.ids = document_ids]]
    /\ snap' = Snapshot
    /\ nops' = [nops EXCEPT !.other = @ + 1]
    /\ UNCHANGED <<lib, cfg, docs, store, queue, replies, wk, assignLog>>

\* an entry of the failed list
Failure(document_id, error) == [document_id |-> document_id, error |-> error]

RECURSIVE NotFound(_, _)
\* the entries for the ids msearch found no document for, in input order
NotFound(ds, document_ids) ==
    IF document_ids = <<>> THEN <<>>
    ELSE (IF Head(document_ids) \in ds THEN <<>>
          ELSE <<Failure(Head(document_ids), "404")>>) \o NotFound(ds, Tail(document_ids))

\* es.msearch for the ids: those with one hit go on, the others are reported
\* as failed with [404] (an _id never has more than one hit)
assignTaskToMany_msearch(t) ==
    /\ th[t].pc = "assignTaskToMany_msearch"
    /\ th' = [th EXCEPT ![t] =
                [th[t] EXCEPT !.pc = "assignTaskToMany_bulk",
                              !.todo = SelectSeq(th[t].ids, LAMBDA d : d \in docs),
                              !.failed = NotFound(docs, th[t].ids)]]
    /\ UNCHANGED <<lib, cfg, docs, store, queue, replies, wk, snap, assignLog, nops>>

RECURSIVE Bulk(_, _, _)

\* helpers.bulk(actions, raise_on_error=False): the create actions one after
\* the other; errors holds the _id of every action that met a conflict (409)
Bulk(st, document_ids, key) ==
    IF document_ids = <<>> THEN [store |-> st, errors |-> {}, created |-> {}]
    ELSE LET id == TaskId(Head(document_ids), key)
         IN  IF EsConflict(st, id)
             THEN [Bulk(st, Tail(document_ids), key) EXCEPT !.errors = @ \cup {id}]
             ELSE [Bulk(EsCreate(st, TaskRecord(id, Head(document_ids), key, CREATED, "Created")),
                        Tail(document_ids), key)
                     EXCEPT !.created = @ \cup {id}]

RECURSIVE Conflicts(_, _, _)
\* the entries for the tasks whose _id is a key of errors, in order
Conflicts(errors, document_ids, key) ==
    IF document_ids = <<>> THEN <<>>
    ELSE (IF TaskId(Head(document_ids), key) \in errors
          THEN <<Failure(Head(document_ids), "already assigned")>>
          ELSE <<>>) \o Conflicts(errors, Tail(document_ids), key)

\* the bulk create of one task per document found, then the success and failed
\* lists are built and returned, and the thread of _run_async is started: the
\* same thread record goes on as that thread
assignTaskToMany_bulk(t) ==
    /\ th[t].pc = "assignTaskToMany_bulk"
    /\ LET b == Bulk(store, th[t].todo, th[t].key)
           ok == SelectSeq(th[t].todo, LAMBDA d : TaskId(d, th[t].key) \notin b.errors)
       IN  /\ store' = b.store
           /\ th' = [th EXCEPT ![t] =
                       [th[t] EXCEPT !.pc = "run_async",
                                     !.created = b.created,
                                     !.success = ok,
                                     !.failed = @ \o Conflicts(b.errors, th[t].todo, th[t].key),
                                     !.todo = ok]]
    /\ UNCHANGED <<lib, cfg, docs, queue, replies, wk, snap, assignLog, nops>>

\* _run_async: for task in tasks: try: task.run()
run_async(t) ==
    /\ th[t].pc = "run_async"
    /\ th' = [th EXCEPT ![t] =
                IF th[t].todo = <<>> THEN [th[t] EXCEPT !.pc = "done"]
                ELSE [th[t] EXCEPT !.pc = "run_read",
                                   !.task = TaskId(Head(th[t].todo), th[t].key),
                                   !.ret = "run_async_next",
                                   !.ran = @ \cup {TaskId(Head(th[t].todo), th[t].key)}]]
    /\ UNCHANGED <<lib, cfg, docs, store, queue, replies, wk, snap, assignLog, nops>>

----------------------------------------------------------------------------
(* ESHandler.registerDocument, ESHandler.deleteDocument *)

\* registerDocument: es.index(id=_id, op_type="create") of the document, one request
registerDocument(t, document_id) ==
    /\ th[t].pc = "idle" /\ CanStart /\ nops.other < cfg.maxOps
    /\ th' = [th EXCEPT ![t] =
                [IdleThread EXCEPT !.pc = "done", !.op = "register", !.doc = document_id,
                                   !.exc = IF document_id \in docs
                                           THEN "DocumentExistsError" ELSE "none"]]
    /\ docs' = docs \cup {document_id}
    /\ snap' = Snapshot
    /\ nops' = [nops EXCEPT !.other = @ + 1]
    /\ UNCHANGED <<lib, cfg, store, queue, replies, wk, assignLog>>

\* deleteDocument(document) on a document object that has an _id
deleteDocument(t, document_id) ==
    /\ th[t].pc = "idle" /\ CanStart /\ nops.other < cfg.maxOps
    /\ th' = [th EXCEPT ![t] = [IdleThread EXCEPT !.pc = "deleteDocument_query",
                                    !.op = "delete", !.doc = document_id]]
    /\ snap' = Snapshot
    /\ nops' = [nops EXCEPT !.other = @ + 1]
    /\ UNCHANGED <<lib, cfg, docs, store, queue, replies, wk, assignLog>>

\* the tasks es.delete_by_query removes: those whose parent is the document
DeletedByQuery(st, document_id) == { x \in st : x.parent = document_id }

\* es.delete_by_query(tasks and results below the document)
deleteDocument_query(t) ==
    /\ th[t].pc = "deleteDocument_query"
    /\ store' = store \ DeletedByQuery(store, th[t].doc)
    /\ th' = [th EXCEPT ![t] = [th[t] EXCEPT !.pc = "deleteDocument_delete"]]
    /\ UNCHANGED <<lib, cfg, docs, queue, replies, wk, snap, assignLog, nops>>

\* es.delete(document._id): True, or NotFoundError caught and False returned
deleteDocument_delete(t) ==
    /\ th[t].pc = "deleteDocument_delete"
    /\ docs' = docs \ {th[t].doc}
    /\ th' = [th EXCEPT ![t] = [th[t] EXCEPT !.pc = "done",
                                             !.deleted = th[t].doc \in docs]]
    /\ UNCHANGED <<lib, cfg, store, queue, replies, wk, snap, assignLog, nops>>

----------------------------------------------------------------------------
(* ESHandler.run, ESHandler.retry, ESHandler._queue_task *)

\* run: taskFromTaskId, then the decision on the state read
run_read(t) ==
    /\ th[t].pc = "run_read"
    /\ LET found == taskFromTaskId(store, docs, th[t].task)
       IN  th' = [th EXCEPT ![t] =
                    IF Cardinality(found) # 1 THEN Raise(th[t], "TaskExistsError")
                    ELSE IF \E x \in found : RunQueues(x.state)
                    THEN [th[t] EXCEPT !.pc = "queue_task_doc"]
                    ELSE Return(th[t])]
    /\ UNCHANGED <<lib, cfg, docs, store, queue, replies, wk, snap, assignLog, nops>>

\* retry: taskFromTaskId, then the decision on the state read
retry_read(t) ==
    /\ th[t].pc = "retry_read"
    /\ LET found == taskFromTaskId(store, docs, th[t].task)
       IN  th' = [th EXCEPT ![t] =
                    IF Cardinality(found) # 1 THEN Raise(th[t], "TaskExistsError")
                    ELSE IF \E x \in found : RetryQueues(x.state, th[t].force)
                    THEN [th[t] EXCEPT !.pc = "queue_task_doc"]
                    ELSE Return(th[t])]
    /\ UNCHANGED <<lib, cfg, docs, store, queue, replies, wk, snap, assignLog, nops>>

\* _queue_task: documentFromTaskId(task._id)
queue_task_doc(t) ==
    /\ th[t].pc = "queue_task_doc"
    /\ LET found == documentFromTaskId(store, docs, th[t].task)
       IN  th' = [th EXCEPT ![t] =
                    IF Cardinality(found) # 1 THEN Raise(th[t], "TaskExistsError")
                    ELSE [th[t] EXCEPT !.pc = "queue_task_update",
                                       !.doc = CHOOSE d \in found : TRUE]]
    /\ UNCHANGED <<lib, cfg, docs, store, queue, replies, wk, snap, assignLog, nops>>

\* _queue_task: updateTaskState(task._id, QUEUED, "Queued")
queue_task_update(t) ==
    /\ th[t].pc = "queue_task_update"
    /\ IF EsMissing(store, th[t].task)
       THEN /\ th' = [th EXCEPT ![t] = Raise(th[t], "NotFoundError")]
            /\ store' = store
       ELSE /\ store' = updateTaskState(store, th[t].task, QUEUED, "Queued")
            /\ th' = [th EXCEPT ![t] = [th[t] EXCEPT !.pc = "queue_task_publish"]]
    /\ UNCHANGED <<lib, cfg, docs, queue, replies, wk, snap, assignLog, nops>>

\* the message queue.publish sends: the task and its document
Message(st, task_id, document_id) ==
    LET x == CHOOSE x \in st : x.id = task_id
    IN  TaskMessage(task_id, x.key, document_id)

\* _queue_task: queue.publish(routing_key, task, document) went through
queue_task_publish(t) ==
    /\ th[t].pc = "queue_task_publish"
    /\ ~ EsMissing(store, th[t].task)
    /\ LET m == Message(store, th[t].task, th[t].doc)
       IN  queue' = [queue EXCEPT ![m] = @ + 1]
    /\ th' = [th EXCEPT ![t] = Return(th[t])]
    /\ UNCHANGED <<lib, cfg, docs, store, replies, wk, snap, assignLog, nops>>

\* _queue_task: queue.publish raised
queue_task_publish_fail(t) ==
    /\ th[t].pc = "queue_task_publish"
    /\ cfg.pubFail
    /\ th' = [th EXCEPT ![t] = [th[t] EXCEPT !.pc = "queue_task_error"]]
    /\ UNCHANGED <<lib, cfg, docs, store, queue, replies, wk, snap, assignLog, nops>>

queue_task_error_NoUpdate(t) ==
    /\ th[t].pc = "queue_task_error"
    /\ th' = [th EXCEPT ![t] = Raise(th[t], "PublishError")]
    /\ UNCHANGED <<lib, cfg, docs, store, queue, replies, wk, snap, assignLog, nops>>

\* _queue_task: updateTaskState(task._id, ERROR, str(e)); raise e
queue_task_error(t) ==
    /\ th[t].pc = "queue_task_error"
    /\ IF EsMissing(store, th[t].task)
       THEN /\ th' = [th EXCEPT ![t] = Raise(th[t], "NotFoundError")]
            /\ store' = store
       ELSE /\ store' = updateTaskState(store, th[t].task, ERROR, "publish failed")
            /\ th' = [th EXCEPT ![t] = Raise(th[t], "PublishError")]
    /\ UNCHANGED <<lib, cfg, docs, queue, replies, wk, snap, assignLog, nops>>

----------------------------------------------------------------------------
(* ESHandler.callback *)

\* the orchestrator takes the next reply off the response queue: callback(task_id, response)
callback_start(t) ==
    /\ t = "cb"
    /\ th[t].pc = "idle" /\ CanStart
    /\ replies # <<>>
    /\ LET r == Head(replies)
       IN  th' = [th EXCEPT ![t] = [IdleThread EXCEPT !.pc = "callback_key", !.op = "callback",
                                        !.cbTask = r.corr, !.cbState = r.state,
                                        !.cbMsg = r.message, !.hasDeps = r.hasDeps,
                                        !.cbDeps = r.dependencies,
                                        !.deps = r.dependencies]]
    /\ replies' = Tail(replies)
    /\ snap' = Snapshot
    /\ UNCHANGED <<lib, cfg, docs, store, queue, wk, assignLog, nops>>

\* task_key = self.getTaskKey(task_id)
callback_key(t) ==
    /\ th[t].pc = "callback_key"
    /\ th' = [th EXCEPT ![t] =
                IF Cardinality(taskFromTaskId(store, docs, th[t].cbTask)) # 1
                THEN Raise(th[t], "TaskExistsError")
                ELSE [th[t] EXCEPT !.pc = "callback_update"]]
    /\ UNCHANGED <<lib, cfg, docs, store, queue, replies, wk, snap, assignLog, nops>>

\* self.updateTaskState(task_id, state, message), then the branch on state
callback_update(t) ==
    /\ th[t].pc = "callback_update"
    /\ IF EsMissing(store, th[t].cbTask)
       THEN /\ th' = [th EXCEPT ![t] = Raise(th[t], "NotFoundError")]
            /\ store' = store
       ELSE /\ store' = updateTaskState(store, th[t].cbTask, th[t].cbState, th[t].cbMsg)
            /\ LET b == CallbackBranch(th[t].cbState, th[t].hasDeps, th[t].deps)
               IN  th' = [th EXCEPT ![t] =
                            IF b = "KeyError" THEN Raise(th[t], "KeyError")
                            ELSE IF b = "return" THEN [th[t] EXCEPT !.pc = "done"]
                            ELSE [th[t] EXCEPT !.pc = b]]
    /\ UNCHANGED <<lib, cfg, docs, queue, replies, wk, snap, assignLog, nops>>

\* doc = self.documentFromTaskId(task_id), before the dependencies are created
callback_doc_deps(t) ==
    /\ th[t].pc = "callback_doc_deps"
    /\ LET found == documentFromTaskId(store, docs, th[t].cbTask)
       IN  th' = [th EXCEPT ![t] =
                    IF Cardinality(found) # 1 THEN Raise(th[t], "TaskExistsError")
                    ELSE [th[t] EXCEPT !.pc = "callback_dep",
                                       !.doc = CHOOSE d \in found : TRUE]]
    /\ UNCHANGED <<lib, cfg, docs, store, queue, replies, wk, snap, assignLog, nops>>

\* for dep in dependencies: td = Task(dep, api=self); td.assign(doc._id)
callback_dep(t) ==
    /\ th[t].pc = "callback_dep"
    /\ th' = [th EXCEPT ![t] =
                IF th[t].deps = <<>>
                THEN [th[t] EXCEPT !.pc = "callback_assigned"]
                ELSE [th[t] EXCEPT !.pc = "assignTask_get", !.key = Head(th[t].deps),
                                   !.ret = "callback_dep_run"]]
    /\ UNCHANGED <<lib, cfg, docs, store, queue, replies, wk, snap, assignLog, nops>>

\* self.run(td._id), after td.assign returned
callback_dep_run(t) ==
    /\ th[t].pc = "callback_dep_run"
    /\ th' = [th EXCEPT ![t] = [th[t] EXCEPT !.pc = "run_read", !.ret = "callback_dep_next"]]
    /\ assignLog' = Logged(th[t].doc, th[t].key, "none")
    /\ UNCHANGED <<lib, cfg, docs, store, queue, replies, wk, snap, nops>>

\* doc = self.documentFromTaskId(task_id), when doc is None
callback_doc(t) ==
    /\ th[t].pc = "callback_doc"
    /\ LET found == documentFromTaskId(store, docs, th[t].cbTask)
       IN  th' = [th EXCEPT ![t] =
                    IF Cardinality(found) # 1 THEN Raise(th[t], "TaskExistsError")
                    ELSE [th[t] EXCEPT !.pc = "callback_assigned",
                                       !.doc = CHOOSE d \in found : TRUE]]
    /\ UNCHANGED <<lib, cfg, docs, store, queue, replies, wk, snap, assignLog, nops>>

\* assigned = doc.getAssignedTasks()
callback_assigned(t) ==
    /\ th[t].pc = "callback_assigned"
    /\ th' = [th EXCEPT ![t] =
                [th[t] EXCEPT !.pc = "callback_cascade",
                              !.assigned = { [id |-> x.id, state |-> x.state] :
                                             x \in getAssignedTasks(store, th[t].doc) }]]
    /\ UNCHANGED <<lib, cfg, docs, store, queue, replies, wk, snap, assignLog, nops>>

\* for at in assigned: the next entry the cascade runs, the others skipped
callback_cascade(t) ==
    /\ th[t].pc = "callback_cascade"
    /\ LET todo == { at \in th[t].assigned : CascadeRuns(at, th[t].cbTask, th[t].cbState) }
       IN  IF todo = {}
           THEN th' = [th EXCEPT ![t] = [th[t] EXCEPT !.pc = "done", !.assigned = {}]]
           ELSE \E at \in todo :
                    th' = [th EXCEPT ![t] =
                             [th[t] EXCEPT !.pc = "run_read", !.task = at.id,
                                           !.ret = "callback_cascade",
                                           !.ran = @ \cup {at.id},
                                           !.assigned = todo \ {at}]]
    /\ UNCHANGED <<lib, cfg, docs, store, queue, replies, wk, snap, assignLog, nops>>

----------------------------------------------------------------------------
(* base_worker *)

\* _validate_received_data: None unless the body decodes to an object with
\* both sections
validate_received_data(m) == m.body # "incomplete"

Response(state, message) ==
    [state |-> state, message |-> message, hasDeps |-> FALSE, dependencies |-> <<>>]

\* _inspect_then_run_task: what the worker does with a delivered message.
\* No body: KeyError, which is not a TypeError and so ends in `except Exception`;
\* sections that do not fit Task / Document: TypeError; dependencies not met:
\* the 412 reply; otherwise the worker's callback is started.
Inspect(st, m, depends_on) ==
    IF ~ validate_received_data(m)
    THEN [pc |-> "reply", cause |-> "incomplete",
          resp |-> Response(ERROR, "Unhandled error")]
    ELSE IF m.body = "badformat"
    THEN [pc |-> "reply", cause |-> "badformat",
          resp |-> Response(BAD_REQUEST, "Invalid format, unable to proceed")]
    ELSE LET c == check_task_dependencies(st, m.doc, depends_on)
         IN  IF ~ c.done
             THEN [pc |-> "reply", cause |-> "unmet",
                   resp |-> [state |-> UNFINISHED_DEPENDENCY,
                             message |-> "Unfinished dependencies",
                             hasDeps |-> TRUE, dependencies |-> c.missing]]
             ELSE [pc |-> "processing", cause |-> "", resp |-> NoResp]

\* the consume loop hands the next delivery to _inspect_then_run_task (prefetch 1)
inspect_then_run_task(w) ==
    /\ wk[w].pc = "idle" /\ CanStart
    /\ \E m \in Msgs :
         /\ m.key = w /\ queue[m] > 0
         /\ queue' = [queue EXCEPT ![m] = @ - 1]
         /\ LET i == Inspect(store, m, cfg.depends_on[w])
            IN  wk' = [wk EXCEPT ![w] = [@ EXCEPT !.pc = i.pc, !.msg = m,
                                                  !.resp = i.resp, !.cause = i.cause]]
    /\ UNCHANGED <<lib, cfg, docs, store, replies, th, snap, assignLog, nops>>

\* _start_processing_task: the worker's callback returned a response
start_processing_task(w, state) ==
    /\ wk[w].pc = "processing"
    /\ state \in cfg.replyStates[w]
    /\ wk' = [wk EXCEPT ![w] = [@ EXCEPT !.pc = "reply", !.cause = "returned",
                                         !.resp = Response(state, "worker")]]
    /\ UNCHANGED <<lib, cfg, docs, store, queue, replies, th, snap, assignLog, nops>>

start_processing_task_refuse_AsError(w) ==
    /\ wk[w].pc = "processing"
    /\ wk' = [wk EXCEPT ![w] = [@ EXCEPT !.pc = "reply", !.cause = "refused",
                                         !.resp = Response(ERROR, "Unhandled worker error")]]
    /\ UNCHANGED <<lib, cfg, docs, store, queue, replies, th, snap, assignLog, nops>>

\* _start_processing_task: the worker's callback raised RefuseJobException
start_processing_task_refuse(w) ==
    /\ wk[w].pc = "processing"
    /\ wk' = [wk EXCEPT ![w] = [@ EXCEPT !.pc = "nack", !.cause = "refused"]]
    /\ UNCHANGED <<lib, cfg, docs, store, queue, replies, th, snap, assignLog, nops>>

start_processing_task_raise_Nack(w) ==
    /\ wk[w].pc = "processing"
    /\ wk' = [wk EXCEPT ![w] = [@ EXCEPT !.pc = "nack", !.cause = "raised"]]
    /\ UNCHANGED <<lib, cfg, docs, store, queue, replies, th, snap, assignLog, nops>>

\* _start_processing_task: the worker's callback raised another exception
start_processing_task_raise(w) ==
    /\ wk[w].pc = "processing"
    /\ wk' = [wk EXCEPT ![w] = [@ EXCEPT !.pc = "reply", !.cause = "raised",
                                         !.resp = Response(ERROR, "Unhandled worker error")]]
    /\ UNCHANGED <<lib, cfg, docs, store, queue, replies, th, snap, assignLog, nops>>

\* the delivery is settled: the worker is back in its consume loop
Settle(r, settled) ==
    [IdleWorker EXCEPT !.last = IF cfg.wlog
                                THEN [cause |-> r.cause, settled |-> settled, msg |-> r.msg,
                                      state |-> r.resp.state]
                                ELSE NoLast]

\* the reply _ack_and_reply publishes: the response with props.correlation_id
Reply(r) ==
    [corr |-> r.msg.corr, state |-> r.resp.state, message |-> r.resp.message,
     hasDeps |-> r.resp.hasDeps, dependencies |-> r.resp.dependencies]

ack_and_reply_Twice(w) ==
    /\ wk[w].pc = "reply"
    /\ replies' = Append(Append(replies, Reply(wk[w])), Reply(wk[w]))
    /\ wk' = [wk EXCEPT ![w] = Settle(wk[w], "ack")]
    /\ UNCHANGED <<lib, cfg, docs, store, queue, th, snap, assignLog, nops>>

\* _ack_and_reply: basic_publish to reply_to with the correlation id, then basic_ack
ack_and_reply(w) ==
    /\ wk[w].pc = "reply"
    /\ replies' = Append(replies, Reply(wk[w]))
    /\ wk' = [wk EXCEPT ![w] = Settle(wk[w], "ack")]
    /\ UNCHANGED <<lib, cfg, docs, store, queue, th, snap, assignLog, nops>>

nack_refuse_task_NoRequeue(w) ==
    /\ wk[w].pc = "nack"
    /\ queue' = queue
    /\ wk' = [wk EXCEPT ![w] = Settle(wk[w], "nack")]
    /\ UNCHANGED <<lib, cfg, docs, store, replies, th, snap, assignLog, nops>>

\* _nack_refuse_task: basic_nack, the broker requeues the message
nack_refuse_task(w) ==
    /\ wk[w].pc = "nack"
    /\ queue' = [queue EXCEPT ![wk[w].msg] = @ + 1]
    /\ wk' = [wk EXCEPT ![w] = Settle(wk[w], "nack")]
    /\ UNCHANGED <<lib, cfg, docs, store, replies, th, snap, assignLog, nops>>

\* another publisher puts a message on the work queue of a worker
publish_foreign(m) ==
    /\ m \in ForeignMsgs /\ m.key \in cfg.keys
    /\ \E d \in docs : m.corr = TaskId(d, m.key)
    /\ CanStart /\ nops.other < MaxForeign
    /\ queue' = [queue EXCEPT ![m] = @ + 1]
    /\ nops' = [nops EXCEPT !.other = @ + 1]
    /\ UNCHANGED <<lib, cfg, docs, store, replies, th, wk, snap, assignLog>>

----------------------------------------------------------------------------
(* DANE.Task objects and DANE.taskContainer *)

NoExc == "none"

\* a Task object as an element of a container: _id and state as set by
\* Task.__init__, and the state of the task in the index (None: not in the index)
TaskObject(id, state, stored) ==
    [kind |-> "task", _id |-> id, state |-> state, stored |-> stored, tasks |-> <<>>]

\* a taskSequential or taskParallel with its _tasks
Container(kind, tasks) ==
    [kind |-> kind, _id |-> None, state |-> None, stored |-> None, tasks |-> tasks]

ContainerKinds == {"taskSequential", "taskParallel"}

\* the Task objects a client can hold
Leaves ==
    { TaskObject(Some("t"), Some(SUCCESS), Some(SUCCESS)),    \* refreshed, done
      TaskObject(Some("t"), Some(CREATED), Some(QUEUED)),     \* as assignTask left the object
      TaskObject(Some("t"), None, Some(SUCCESS)),             \* built from its id, done in the index
      TaskObject(Some("t"), None, Some(QUEUED)),              \* built from its id, not done
      TaskObject(Some("t"), Some(CREATED), None),             \* deleted from the index
      TaskObject(None, None, None) }                          \* Task(key), not assigned

\* a value returned, or the exception raised
Returns(v) == [exc |-> NoExc, val |-> v]
Raises(e) == [exc |-> e, val |-> 0]

\* base_handler.isDone / ESHandler.getTaskState: taskFromTaskId raises when the task is gone
api_getTaskState(l) ==
    IF l.stored = None THEN Raises("TaskExistsError") ELSE Returns(The(l.stored))

api_isDone(l) ==
    LET r == api_getTaskState(l)
    IN  IF r.exc # NoExc THEN r ELSE Returns(r.val = 200)

\* Task.isDone
Task_isDone(l) ==
    IF l.state # None THEN Returns(The(l.state) = 200)
    ELSE IF l._id = None THEN Raises("APIRegistrationError")
    ELSE api_isDone(l)

\* the body of the method Task.state
Task_state_method(l) ==
    IF l.state # None THEN Returns(The(l.state))
    ELSE IF l._id = None THEN Raises("APIRegistrationError")
    ELSE api_getTaskState(l)

\* task.state(): Task.__init__ sets the instance attribute self.state (None or
\* an int), which hides the method of the class; calling the attribute raises
Task_state(l) == Raises("TypeError")

\* Task.run / Task.retry on a Task object: api.run(task_id), api.retry(task_id)
Task_call(l) ==
    IF l._id = None THEN "APIRegistrationError"
    ELSE IF l.stored = None THEN "TaskExistsError"
    ELSE NoExc

RECURSIVE taskContainer_isDone(_), isDoneFrom(_, _), taskContainer_state(_), stateFrom(_, _)
RECURSIVE Call(_), taskSequential_run(_, _), taskParallel_run(_, _)
RECURSIVE taskSequential_run_NoBreak(_, _), taskParallel_run_All(_, _)
RECURSIVE isDoneFrom_First(_, _)

isDoneFrom_First(tasks, i) ==
    IF i > Len(tasks) THEN Returns(TRUE)
    ELSE taskContainer_isDone(tasks[i])

\* taskContainer.isDone: for task in self: if not task.isDone(): return False
isDoneFrom(tasks, i) ==
    IF i > Len(tasks) THEN Returns(TRUE)
    ELSE LET d == taskContainer_isDone(tasks[i])
         IN  IF d.exc # NoExc THEN d
             ELSE IF ~ d.val THEN Returns(FALSE)
             ELSE isDoneFrom(tasks, i + 1)

\* isDone() of an element: a Task or a nested container
taskContainer_isDone(e) == IF e.kind = "task" THEN Task_isDone(e) ELSE isDoneFrom(e.tasks, 1)

\* taskContainer.state: the first element that is not done answers, else 200
stateFrom(tasks, i) ==
    IF i > Len(tasks) THEN Returns(200)
    ELSE LET d == taskContainer_isDone(tasks[i])
         IN  IF d.exc # NoExc THEN Raises(d.exc)
             ELSE IF ~ d.val THEN taskContainer_state(tasks[i])
             ELSE stateFrom(tasks, i + 1)

\* state() of an element
taskContainer_state(e) == IF e.kind = "task" THEN Task_state(e) ELSE stateFrom(e.tasks, 1)

\* what run() or retry() of a container did: the elements it called, in order,
\* and the exception that ended it
Ran(exc, calls) == [exc |-> exc, calls |-> calls]

taskSequential_run_NoBreak(tasks, i) ==
    IF i > Len(tasks) THEN Ran(NoExc, <<>>)
    ELSE LET d == taskContainer_isDone(tasks[i])
         IN  IF d.exc # NoExc THEN Ran(d.exc, <<>>)
             ELSE IF d.val THEN taskSequential_run_NoBreak(tasks, i + 1)
             ELSE LET x == Call(tasks[i])
                      r == taskSequential_run_NoBreak(tasks, i + 1)
                  IN  IF x # NoExc THEN Ran(x, <<i>>)
                      ELSE Ran(r.exc, <<i>> \o r.calls)

\* taskSequential.run / retry: the first element that is not done, then break
taskSequential_run(tasks, i) ==
    IF i > Len(tasks) THEN Ran(NoExc, <<>>)
    ELSE LET d == taskContainer_isDone(tasks[i])
         IN  IF d.exc # NoExc THEN Ran(d.exc, <<>>)
             ELSE IF d.val THEN taskSequential_run(tasks, i + 1)
             ELSE Ran(Call(tasks[i]), <<i>>)

taskParallel_run_All(tasks, i) ==
    IF i > Len(tasks) THEN Ran(NoExc, <<>>)
    ELSE LET x == Call(tasks[i])
             r == taskParallel_run_All(tasks, i + 1)
         IN  IF x # NoExc THEN Ran(x, <<i>>)
             ELSE Ran(r.exc, <<i>> \o r.calls)

\* taskParallel.run / retry: every element that is not done
taskParallel_run(tasks, i) ==
    IF i > Len(tasks) THEN Ran(NoExc, <<>>)
    ELSE LET d == taskContainer_isDone(tasks[i])
         IN  IF d.exc # NoExc THEN Ran(d.exc, <<>>)
             ELSE IF d.val THEN taskParallel_run(tasks, i + 1)
             ELSE LET x == Call(tasks[i])
                      r == taskParallel_run(tasks, i + 1)
                  IN  IF x # NoExc THEN Ran(x, <<i>>)
                      ELSE Ran(r.exc, <<i>> \o r.calls)

\* task.run() / task.retry() on an element: the exception it raises, if any
Call(e) ==
    IF e.kind = "task" THEN Task_call(e)
    ELSE IF e.kind = "taskSequential" THEN taskSequential_run(e.tasks, 1).exc
    ELSE taskParallel_run(e.tasks, 1).exc

\* taskSequential.retry and taskParallel.retry: the loops of run, with task.retry()
taskSequential_retry(tasks, i) == taskSequential_run(tasks, i)
taskParallel_retry(tasks, i) == taskParallel_run(tasks, i)

\* the elements add_task can be given: a Task, or a container built from Tasks,
\* of at most room nodes
Elements(room) ==
    Leaves \cup { Container(k, ts) : k \in ContainerKinds,
                                     ts \in UNION { [1..n -> Leaves] : n \in 0..(room - 1) } }

\* number of Tasks and nested containers below a container
RECURSIVE Nodes(_)
Nodes(tasks) ==
    IF tasks = <<>> THEN 0 ELSE 1 + Len(Head(tasks).tasks) + Nodes(Tail(tasks))

\* a container as its constructor leaves it; op, exc, calls, done and code hold
\* what the last operation on the container did and returned, ran the
\* elements that run() or retry() have called so far
NewBox(kind) ==
    [kind |-> kind, tasks |-> <<>>, op |-> "none", exc |-> NoExc, calls |-> <<>>,
     done |-> FALSE, code |-> 0, ran |-> {}]

Applied(op, exc, calls, done, code) ==
    [box EXCEPT !.op = op, !.exc = exc, !.calls = calls, !.done = done, !.code = code,
                !.ran = @ \cup { calls[j] : j \in 1..Len(calls) }]

\* taskContainer.add_task
add_task(e) ==
    /\ box.kind \in ContainerKinds
    /\ Nodes(box.tasks) + 1 + Len(e.tasks) <= MaxNodes
    /\ box' = [Applied("none", NoExc, <<>>, FALSE, 0) EXCEPT !.tasks = Append(box.tasks, e)]
    /\ UNCHANGED <<sys, tobj, fn, proc>>

\* container.run()
container_run ==
    /\ box.kind \in ContainerKinds
    /\ LET r == IF box.kind = "taskSequential" THEN taskSequential_run(box.tasks, 1)
                ELSE taskParallel_run(box.tasks, 1)
       IN  box' = Applied("run", r.exc, r.calls, FALSE, 0)
    /\ UNCHANGED <<sys, tobj, fn, proc>>

\* container.retry()
container_retry ==
    /\ box.kind \in ContainerKinds
    /\ LET r == IF box.kind = "taskSequential" THEN taskSequential_retry(box.tasks, 1)
                ELSE taskParallel_retry(box.tasks, 1)
       IN  box' = Applied("retry", r.exc, r.calls, FALSE, 0)
    /\ UNCHANGED <<sys, tobj, fn, proc>>

\* container.isDone()
container_isDone ==
    /\ box.kind \in ContainerKinds
    /\ LET r == isDoneFrom(box.tasks, 1)
       IN  box' = Applied("isDone", r.exc, <<>>, r.exc = NoExc /\ r.val, 0)
    /\ UNCHANGED <<sys, tobj, fn, proc>>

\* container.state()
container_state ==
    /\ box.kind \in ContainerKinds
    /\ LET r == stateFrom(box.tasks, 1)
       IN  box' = Applied("state", r.exc, <<>>, FALSE, r.val)
    /\ UNCHANGED <<sys, tobj, fn, proc>>

\* Task.refresh on an element: state (and msg) are read from the index
Task_refresh(i) ==
    /\ box.kind \in ContainerKinds
    /\ i \in 1..Len(box.tasks)
    /\ box.tasks[i].kind = "task"
    /\ box.tasks[i]._id # None /\ box.tasks[i].stored # None
    /\ box' = [Applied("none", NoExc, <<>>, FALSE, 0)
                 EXCEPT !.tasks[i].state = box.tasks[i].stored]
    /\ UNCHANGED <<sys, tobj, fn, proc>>

\* the orchestrator stores the SUCCESS a worker reported for a task that was run
task_succeeds(i) ==
    /\ box.kind \in ContainerKinds
    /\ i \in box.ran /\ i \in 1..Len(box.tasks)
    /\ box.tasks[i].kind = "task"
    /\ box.tasks[i].stored # None /\ box.tasks[i].stored # Some(SUCCESS)
    /\ box' = [Applied("none", NoExc, <<>>, FALSE, 0)
                 EXCEPT !.tasks[i].stored = Some(SUCCESS)]
    /\ UNCHANGED <<sys, tobj, fn, proc>>

----------------------------------------------------------------------------
(* Serialisation: Task.to_json / from_json, Document.to_json / from_json *)

\* a dict with no entry
EmptyDict == [n \in {} |-> 0]

\* d without the entries named in names
Without(d, names) == [n \in (DOMAIN d) \ names |-> d[n]]

\* d.get(n): None when there is no entry
Get(d, n) == IF n \in DOMAIN d THEN Some(d[n]) ELSE None

\* json.dumps of a dict: the members "name": value in the order of the dict
json_dumps(d, order) ==
    LET names == SelectSeq(order, LAMBDA n : n \in DOMAIN d)
    IN  [i \in 1..Len(names) |-> [name |-> names[i], value |-> d[names[i]]]]

\* json.loads of an object: a dict with the members of the text
json_loads(text) ==
    [n \in { text[i].name : i \in 1..Len(text) } |->
        text[CHOOSE i \in 1..Len(text) : text[i].name = n].value]

\* str.upper on the keys used here
Upper(k) == IF k = "test" THEN "TEST" ELSE k

Min(a, b) == IF a < b THEN a ELSE b
Max(a, b) == IF a > b THEN a ELSE b

TaskParams == {"key", "priority", "_id", "api", "state", "msg", "created_at", "updated_at"}

Task_init_KwargsOnly(key, priority, id, state, msg, created_at, updated_at, kwargs) ==
    [key |-> Upper(key), priority |-> Max(0, Min(priority, 10)), _id |-> id,
     state |-> state, msg |-> msg, created_at |-> created_at, updated_at |-> updated_at,
     args |-> kwargs]

\* Task.__init__ (key is neither None nor ""): the key in upper case, the
\* priority clipped to 0..10, args the keyword arguments, or the value of the
\* keyword args when it is the only one
Task_init(key, priority, id, state, msg, created_at, updated_at, kwargs) ==
    [key |-> Upper(key), priority |-> Max(0, Min(priority, 10)), _id |-> id,
     state |-> state, msg |-> msg, created_at |-> created_at, updated_at |-> updated_at,
     args |-> IF DOMAIN kwargs = {"args"} THEN kwargs.args ELSE kwargs]

\* Task(**d)
Task_from_dict(d) ==
    Task_init(d.key, IF "priority" \in DOMAIN d THEN d.priority ELSE 1,
              Get(d, "_id"), Get(d, "state"), Get(d, "msg"),
              Get(d, "created_at"), Get(d, "updated_at"), Without(d, TaskParams))

TaskFields == <<"key", "_id", "state", "msg", "created_at", "updated_at", "priority", "args">>

\* Task.to_json: the attributes that are not None, args when it is not empty
Task_to_json(task) ==
    LET present == {"key", "priority"}
                     \cup { n \in {"_id", "state", "msg", "created_at", "updated_at"} :
                            task[n] # None }
                     \cup (IF Cardinality(DOMAIN task.args) > 0 THEN {"args"} ELSE {})
        out == [n \in present |->
                  IF n \in {"key", "priority", "args"} THEN task[n] ELSE The(task[n])]
    IN  json_dumps(out, TaskFields)

\* Task.from_json of a str: {"key": k} and {"task": {...}} are unwrapped, a
\* dict with a member "task" is merged with it, any other dict is Task(**d)
Task_from_json(text) ==
    LET d == json_loads(text)
    IN  IF Cardinality(DOMAIN d) = 1
        THEN IF DOMAIN d = {"key"}
             THEN Returns(Task_init(d.key, 1, None, None, None, None, None, EmptyDict))
             ELSE IF DOMAIN d = {"task"} THEN Returns(Task_from_dict(d.task))
             ELSE Raises("TypeError")
        ELSE IF "task" \in DOMAIN d
        THEN Returns(Task_from_dict(
                [n \in (DOMAIN d.task \cup DOMAIN d) \ {"task"} |->
                    IF n \in DOMAIN d THEN d[n] ELSE d.task[n]]))
        ELSE Returns(Task_from_dict(d))

\* requote_uri(str(url).strip()) on the urls used here
Requote(url) ==
    IF url = " http://h/a" THEN "http://h/a"
    ELSE IF url = "http://h/a b" THEN "http://h/a%20b"
    ELSE IF url = "http://h/a%zz" THEN "http://h/a%25zz"
    ELSE url

\* Document.__init__ for a target and a creator that pass its checks
Document_init(target, creator, id, created_at, updated_at) ==
    [target |-> [target EXCEPT !.url = Requote(@)], creator |-> creator,
     created_at |-> created_at, updated_at |-> updated_at, _id |-> id]

DocumentFields == <<"target", "creator", "created_at", "updated_at", "_id">>

\* Document.to_json: every attribute but api, and _id when it is not None
\* (created_at and updated_at are written also when None, as null)
Document_to_json(doc) ==
    LET present == {"target", "creator", "created_at", "updated_at"}
                     \cup (IF doc._id # None THEN {"_id"} ELSE {})
        out == [n \in present |-> IF n = "_id" THEN The(doc._id) ELSE doc[n]]
    IN  json_dumps(out, DocumentFields)

\* Document.from_json of a str: Document(**d)
Document_from_json(text) ==
    LET d == json_loads(text)
    IN  Returns(Document_init(d.target, d.creator, Get(d, "_id"), d.created_at, d.updated_at))

\* the Task objects the round trip is tried on
KwargsTried ==
    { EmptyDict, [PATH |-> "/x"], [args |-> [PATH |-> "/x"]], [args |-> [PATH |-> "/x"], b |-> 2] }

Tasks ==
    { Task_init(k, p, id, st, msg, at, at, kw) :
        k \in {"test", "DOWNLOAD"}, p \in {-1, 1, 10, 11},
        id \in {None, Some("t1")}, st \in {None, Some(CREATED), Some(SUCCESS)},
        msg \in {None, Some("Created")}, at \in {None, Some("2020-01-01T00:00:00")},
        kw \in KwargsTried }

\* the Document objects the round trip is tried on
Documents ==
    { Document_init([id |-> "ITM123", url |-> u, type |-> ty],
                    [id |-> "TEST", type |-> ag], id, at, at) :
        u \in {"http://h/a", " http://h/a", "http://h/a b", "http://h/a%20b",
                "http://h/a%zz"},
        ty \in {"Video", "Text"}, ag \in {"Software", "Human"},
        id \in {None, Some("d1")}, at \in {None, Some("2020-01-01T00:00:00")} }

\* an object, its serialisation once to_json ran, the object from_json built
\* from it once from_json ran
Serial(f, obj, stage, text, back) ==
    [f |-> f, obj |-> obj, stage |-> stage, text |-> text, back |-> back]

\* serialised = x.to_json()
to_json ==
    /\ fn.f \in {"Task", "Document"} /\ fn.stage = "object"
    /\ fn' = [fn EXCEPT !.stage = "serialised",
                        !.text = IF fn.f = "Task" THEN Task_to_json(fn.obj)
                                 ELSE Document_to_json(fn.obj)]
    /\ UNCHANGED <<sys, box, tobj, proc>>

\* Task.from_json(serialised), Document.from_json(serialised)
from_json ==
    /\ fn.f \in {"Task", "Document"} /\ fn.stage = "serialised"
    /\ fn' = [fn EXCEPT !.stage = "loaded",
                        !.back = IF fn.f = "Task" THEN Task_from_json(fn.text)
                                 ELSE Document_from_json(fn.text)]
    /\ UNCHANGED <<sys, box, tobj, proc>>

----------------------------------------------------------------------------
(* A worker's dependency check on its own *)

\* sequences of keys of length at most n
RECURSIVE KeySeqs(_, _)
KeySeqs(keys, n) ==
    IF n = 0 THEN {<<>>}
    ELSE LET shorter == KeySeqs(keys, n - 1)
         IN  shorter \cup { Append(q, k) : q \in shorter, k \in keys }

\* task records an index can hold: two of document d1, one of document d2,
\* each of key A or B, done or not (tasks of other handlers may share a key)
RecordsTried ==
    { TaskRecord(id, IF id = "t3" THEN "d2" ELSE "d1", k, s, "") :
        id \in {"t1", "t2", "t3"}, k \in {"A", "B"}, s \in {SUCCESS, QUEUED} }

StoresTried ==
    { st \in SUBSET RecordsTried : \A x, y \in st : x.id = y.id => x = y }

\* the call of a worker with this depends_on, and what it returned
DepsCall(depends_on, stage, done, missing, queried) ==
    [f |-> "deps", depends_on |-> depends_on, stage |-> stage,
     done |-> done, missing |-> missing, queried |-> queried]

\* done, dependencies = self._check_task_dependencies(doc) for document d1
check_dependencies ==
    /\ fn.f = "deps" /\ fn.stage = "input"
    /\ LET c == check_task_dependencies(store, "d1", fn.depends_on)
       IN  fn' = DepsCall(fn.depends_on, "checked", c.done, c.missing,
                          check_task_dependencies_queries(fn.depends_on))
    /\ UNCHANGED <<sys, box, tobj, proc>>

----------------------------------------------------------------------------
(* base_worker as a process: connect, run, stop, the callback threads *)

\* channel.basic_qos(prefetch_count=1): deliveries the broker leaves unacknowledged
Prefetch == 1

\* the worker whose process is modelled in detail
WorkerKey == "B"

\* _connected and _is_interrupted; where run() is (off, waiting in
\* channel.consume, check of the flags, dispatch, exited, raised); the delivery
\* consume yielded; the deliveries received and not yet yielded; the number of
\* deliveries the broker has not seen settled; the deliveries whose callback
\* thread is inside self.callback; the calls added with
\* add_callback_threadsafe. History: whether stop() came between the check and
\* the dispatch of an iteration, and the deliveries dispatched since stop().
NewProcess ==
    [ loop |-> "off", connected |-> FALSE, interrupted |-> FALSE, consuming |-> FALSE,
      cur |-> NoMsg, buffer |-> <<>>, unacked |-> 0, running |-> <<>>, scheduled |-> <<>>,
      midway |-> FALSE, late |-> 0 ]

Scheduled(kind, m, resp) == [kind |-> kind, msg |-> m, resp |-> resp]

\* the sequence without its i-th element
Remove(q, i) == SubSeq(q, 1, i - 1) \o SubSeq(q, i + 1, Len(q))

\* connect(): the channel is opened with prefetch 1, the flags are set
connect ==
    /\ proc.loop \in {"off", "raised"} /\ ~ proc.connected
    /\ proc' = [proc EXCEPT !.connected = TRUE, !.interrupted = FALSE]
    /\ UNCHANGED <<sys, box, tobj, fn>>

\* run(): enters the consume loop, or raises ResourceConnectionError
worker_run ==
    /\ proc.loop \in {"off", "exited", "raised"}
    /\ proc' = IF proc.connected
               THEN [proc EXCEPT !.loop = "waiting", !.consuming = TRUE]
               ELSE [proc EXCEPT !.loop = "raised"]
    /\ UNCHANGED <<sys, box, tobj, fn>>

\* stop() on a connected worker, from another thread: sets the flag
worker_stop ==
    /\ proc.loop # "none" /\ proc.connected /\ ~ proc.interrupted
    /\ proc' = [proc EXCEPT !.interrupted = TRUE, !.midway = (proc.loop = "dispatch"),
                            !.late = 0]
    /\ UNCHANGED <<sys, box, tobj, fn>>

broker_deliver_NoQos(m) ==
    /\ proc.loop # "none" /\ proc.consuming
    /\ m.key = WorkerKey /\ queue[m] > 0
    /\ queue' = [queue EXCEPT ![m] = @ - 1]
    /\ proc' = [proc EXCEPT !.buffer = Append(@, m), !.unacked = @ + 1]
    /\ UNCHANGED <<cfg, docs, store, replies, th, wk, snap, assignLog, nops, box, tobj, fn>>

\* the broker pushes a ready message to the consumer while fewer than
\* prefetch_count deliveries are unacknowledged
broker_deliver(m) ==
    /\ proc.loop # "none" /\ proc.consuming
    /\ proc.unacked < Prefetch
    /\ m.key = WorkerKey /\ queue[m] > 0
    /\ queue' = [queue EXCEPT ![m] = @ - 1]
    /\ proc' = [proc EXCEPT !.buffer = Append(@, m), !.unacked = @ + 1]
    /\ UNCHANGED <<cfg, docs, store, replies, th, wk, snap, assignLog, nops, box, tobj, fn>>

\* while run() waits in channel.consume the connection runs the calls added
\* with add_callback_threadsafe: _ack_and_reply (publish the reply, basic_ack)
\* or basic_nack (the message is ready again)
process_scheduled ==
    /\ proc.loop = "waiting" /\ proc.scheduled # <<>>
    /\ LET c == Head(proc.scheduled)
       IN  /\ replies' = IF c.kind = "ack" THEN Append(replies, Reply(c)) ELSE replies
           /\ queue' = IF c.kind = "nack" THEN [queue EXCEPT ![c.msg] = @ + 1] ELSE queue
    /\ proc' = [proc EXCEPT !.scheduled = Tail(@), !.unacked = @ - 1]
    /\ UNCHANGED <<cfg, docs, store, th, wk, snap, assignLog, nops, box, tobj, fn>>

\* channel.consume(queue, inactivity_timeout=1) yields the next delivery, or
\* (None, None, None) when none arrived within the timeout
consume_yield ==
    /\ proc.loop = "waiting"
    /\ proc' = IF proc.buffer # <<>>
               THEN [proc EXCEPT !.loop = "check", !.cur = Head(proc.buffer),
                                 !.buffer = Tail(proc.buffer)]
               ELSE [proc EXCEPT !.loop = "check", !.cur = NoMsg]
    /\ UNCHANGED <<sys, box, tobj, fn>>

consume_check_NoFlag ==
    /\ proc.loop = "check"
    /\ proc' = IF ~ proc.connected
               THEN [proc EXCEPT !.loop = "exited"]
               ELSE IF proc.cur = NoMsg
               THEN [proc EXCEPT !.loop = "waiting"]
               ELSE [proc EXCEPT !.loop = "dispatch"]
    /\ UNCHANGED <<sys, box, tobj, fn>>

\* if self._is_interrupted or not self._connected: break
\* if not method: continue
consume_check ==
    /\ proc.loop = "check"
    /\ proc' = IF proc.interrupted \/ ~ proc.connected
               THEN [proc EXCEPT !.loop = "exited"]
               ELSE IF proc.cur = NoMsg
               THEN [proc EXCEPT !.loop = "waiting"]
               ELSE [proc EXCEPT !.loop = "dispatch"]
    /\ UNCHANGED <<sys, box, tobj, fn>>

\* self._inspect_then_run_task(channel, method, props, body): a reply at once
\* (_ack_and_reply on the loop's thread), or a thread for self.callback
consume_dispatch ==
    /\ proc.loop = "dispatch"
    /\ LET i == Inspect(store, proc.cur, cfg.depends_on[WorkerKey])
           counted == IF proc.interrupted THEN proc.late + 1 ELSE proc.late
       IN  IF i.pc = "reply"
           THEN /\ replies' = Append(replies, Reply([msg |-> proc.cur, resp |-> i.resp]))
                /\ proc' = [proc EXCEPT !.loop = "waiting", !.cur = NoMsg,
                                        !.unacked = @ - 1, !.late = counted]
           ELSE /\ replies' = replies
                /\ proc' = [proc EXCEPT !.loop = "waiting", !.cur = NoMsg,
                                        !.running = Append(@, proc.cur), !.late = counted]
    /\ UNCHANGED <<cfg, docs, store, queue, th, wk, snap, assignLog, nops, box, tobj, fn>>

\* _start_processing_task in its thread: self.callback returned, raised
\* RefuseJobException or raised something else; the settlement is handed to the
\* connection with add_callback_threadsafe and the thread ends
thread_callback(i, outcome) ==
    /\ proc.loop # "none"
    /\ i \in 1..Len(proc.running)
    /\ LET m == proc.running[i]
           c == IF outcome = "refused" THEN Scheduled("nack", m, NoResp)
                ELSE IF outcome = "raised"
                THEN Scheduled("ack", m, Response(ERROR, "Unhandled worker error"))
                ELSE Scheduled("ack", m, Response(SUCCESS, "worker"))
       IN  proc' = [proc EXCEPT !.running = Remove(@, i), !.scheduled = Append(@, c)]
    /\ UNCHANGED <<sys, box, tobj, fn>>

Outcomes == {"returned", "refused", "raised"}

----------------------------------------------------------------------------
(* ESHandler.getUnfinished *)

\* the states the query of getUnfinished excludes: done or waiting for a
\* dependency, and with only_runnable those left to manual intervention and QUEUED
Excluded(only_runnable) ==
    {SUCCESS, UNFINISHED_DEPENDENCY}
        \cup (IF only_runnable
              THEN {NO_ROUTE_TO_QUEUE, ERROR, BAD_REQUEST, ACCESS_DENIED, NOT_FOUND, QUEUED}
              ELSE {})

\* getUnfinished: the tasks with a parent document whose state is not excluded
getUnfinished(st, ds, only_runnable) ==
    { t \in st : t.parent \in ds /\ t.state \notin Excluded(only_runnable) }

----------------------------------------------------------------------------
(* Specifications *)

\* the index and the queues are empty, threads and workers idle ...
InitSys ==
    /\ store = {}
    /\ queue = [m \in Msgs |-> 0]
    /\ replies = <<>>
    /\ th = [t \in Threads |-> IdleThread]
    /\ wk = [w \in Keys |-> IdleWorker]
    /\ snap = NoSnap
    /\ assignLog = [dk \in Docs \X Keys |-> NoLog]
    /\ nops = [assign |-> 0, other |-> 0]

\* ... and no client-side object
InitState ==
    /\ InitSys
    /\ box = NoBox
    /\ tobj = NoObjects
    /\ fn = NoCall
    /\ proc = NoProcess

\* depends_on of the workers: B waits for A, C waits for A and B
DependsChain ==
    [w \in Keys |-> IF w = "C" THEN <<"A", "B">> ELSE IF w = "B" THEN <<"A">> ELSE <<>>]

NoDepends == [w \in Keys |-> <<>>]

\* depends_on of the workers: A and B wait for each other
DependsMutual ==
    [w \in Keys |-> IF w = "A" THEN <<"B">> ELSE IF w = "B" THEN <<"A">> ELSE <<>>]

AssignSteps(t) == assignTask_get(t) \/ assignTask_create(t)

QueueSteps(t) ==
    \/ run_read(t)
    \/ queue_task_doc(t) \/ queue_task_update(t) \/ queue_task_publish(t)
    \/ queue_task_publish_fail(t) \/ queue_task_error(t)

CallbackSteps(t) ==
    \/ callback_start(t) \/ callback_key(t) \/ callback_update(t)
    \/ callback_doc(t) \/ callback_assigned(t) \/ callback_cascade(t)

DependencySteps(t) == callback_doc_deps(t) \/ callback_dep(t) \/ callback_dep_run(t)

WorkerSteps(w) ==
    \/ inspect_then_run_task(w)
    \/ \E s \in ProcState : start_processing_task(w, s)
    \/ ack_and_reply(w)

(* Spec: one document, tasks A, B, C, workers B and C with dependencies;        *)
(* operations one after the other; callers assign and reset.                *)
Init ==
    /\ InitState
    /\ docs = {"d1"}
    /\ cfg = [seq |-> TRUE, log |-> FALSE, clients |-> {"c1"}, keys |-> Keys,
              maxAssign |-> MaxAssign, maxOps |-> MaxOps,
              depends_on |-> DependsChain, replyStates |-> [w \in Keys |-> {SUCCESS, ERROR_PROXY}],
              pubFail |-> TRUE, wlog |-> FALSE]

Next ==
    \/ \E t \in cfg.clients, d \in docs, k \in Keys : Task_assign(t, d, k)
    \/ \E t \in cfg.clients, x \in store : Task_reset(t, x.id)
    \/ \E t \in Threads : reset_update(t) \/ Finish(t)
    \/ \E t \in Threads : AssignSteps(t) \/ QueueSteps(t)
    \/ \E t \in Threads : CallbackSteps(t) \/ DependencySteps(t)
    \/ \E w \in Keys : WorkerSteps(w)

Spec == Init /\ [][Next]_vars

(* SpecGate: one document, one task A whose worker reports any state;       *)
(* callers assign, run, retry and reset.                                    *)
InitGate ==
    /\ InitState
    /\ docs = {"d1"}
    /\ cfg = [seq |-> TRUE, log |-> FALSE, clients |-> {"c1"}, keys |-> {"A"},
              maxAssign |-> MaxAssign, maxOps |-> MaxOps,
              depends_on |-> NoDepends, replyStates |-> [w \in Keys |-> ProcState],
              pubFail |-> TRUE, wlog |-> FALSE]

NextGate ==
    \/ \E t \in cfg.clients, d \in docs, k \in Keys : Task_assign(t, d, k)
    \/ \E t \in cfg.clients, x \in store : Task_run(t, x.id)
    \/ \E t \in cfg.clients, x \in store, f \in BOOLEAN : Task_retry(t, x.id, f)
    \/ \E t \in cfg.clients, x \in store : Task_reset(t, x.id)
    \/ \E t \in Threads : reset_update(t) \/ retry_read(t) \/ Finish(t)
    \/ \E t \in Threads : AssignSteps(t) \/ QueueSteps(t)
    \/ \E t \in Threads : CallbackSteps(t)
    \/ \E w \in Keys : WorkerSteps(w)

SpecGate == InitGate /\ [][NextGate]_vars

(* SpecConc: one document, tasks A and B (B waits for A); two callers, the   *)
(* callback thread and the workers interleave step by step; publishing works; *)
(* callers assign, and the outcome of every assignTask call is logged.       *)
InitConc ==
    /\ InitState
    /\ docs = {"d1"}
    /\ cfg = [seq |-> FALSE, log |-> TRUE, clients |-> Clients, keys |-> {"A", "B"},
              maxAssign |-> MaxAssign, maxOps |-> MaxOps,
              depends_on |-> DependsChain, replyStates |-> [w \in Keys |-> {SUCCESS}],
              pubFail |-> FALSE, wlog |-> FALSE]

NextConc ==
    \/ \E t \in cfg.clients, d \in docs, k \in Keys : Task_assign(t, d, k)
    \/ \E t \in Threads : Finish(t)
    \/ \E t \in Threads : AssignSteps(t)
    \/ \E t \in Threads : run_read(t) \/ queue_task_doc(t) \/ queue_task_update(t)
    \/ \E t \in Threads : queue_task_publish(t)
    \/ \E t \in Threads : CallbackSteps(t) \/ DependencySteps(t)
    \/ \E w \in Keys : WorkerSteps(w)

SpecConc == InitConc /\ [][NextConc]_vars

(* SpecDel: one document id, task A; two callers register and delete the    *)
(* document and assign the task while the callback thread and the worker     *)
(* run; every request to the index is a step of its own.                     *)
InitDel ==
    /\ InitState
    /\ docs = {"d1"}
    /\ cfg = [seq |-> FALSE, log |-> TRUE, clients |-> Clients, keys |-> {"A"},
              maxAssign |-> MaxAssign, maxOps |-> MaxOps,
              depends_on |-> NoDepends, replyStates |-> [w \in Keys |-> {SUCCESS}],
              pubFail |-> FALSE, wlog |-> FALSE]

DeleteSteps(t) == deleteDocument_query(t) \/ deleteDocument_delete(t)

NextDel ==
    \/ \E t \in cfg.clients, k \in Keys : Task_assign(t, "d1", k)
    \/ \E t \in cfg.clients : registerDocument(t, "d1")
    \/ \E t \in cfg.clients : deleteDocument(t, "d1")
    \/ \E t \in Threads : Finish(t)
    \/ \E t \in Threads : AssignSteps(t)
    \/ \E t \in Threads : DeleteSteps(t)
    \/ \E t \in Threads : run_read(t) \/ queue_task_doc(t) \/ queue_task_update(t)
    \/ \E t \in Threads : queue_task_publish(t)
    \/ \E t \in Threads : CallbackSteps(t)
    \/ \E w \in Keys : WorkerSteps(w)

SpecDel == InitDel /\ [][NextDel]_vars

(* SpecManual: one document, tasks A and B without dependencies; worker A    *)
(* reports SUCCESS, worker B a state that needs manual intervention; callers *)
(* assign, run, retry and reset; operations one after the other.             *)
ManualStates == {BAD_REQUEST, ACCESS_DENIED, NOT_FOUND, NO_ROUTE_TO_QUEUE, ERROR}

InitManual ==
    /\ InitState
    /\ docs = {"d1"}
    /\ cfg = [seq |-> TRUE, log |-> FALSE, clients |-> {"c1"}, keys |-> {"A", "B"},
              maxAssign |-> MaxAssign, maxOps |-> MaxOps,
              depends_on |-> NoDepends,
              replyStates |-> [w \in Keys |-> IF w = "A" THEN {SUCCESS} ELSE ManualStates],
              pubFail |-> FALSE, wlog |-> FALSE]

NextManual ==
    \/ \E t \in cfg.clients, d \in docs, k \in Keys : Task_assign(t, d, k)
    \/ \E t \in cfg.clients, x \in store : Task_run(t, x.id)
    \/ \E t \in cfg.clients, x \in store, f \in BOOLEAN : Task_retry(t, x.id, f)
    \/ \E t \in cfg.clients, x \in store : Task_reset(t, x.id)
    \/ \E t \in Threads : reset_update(t) \/ retry_read(t) \/ Finish(t)
    \/ \E t \in Threads : AssignSteps(t)
    \/ \E t \in Threads : run_read(t) \/ queue_task_doc(t) \/ queue_task_update(t)
    \/ \E t \in Threads : queue_task_publish(t)
    \/ \E t \in Threads : CallbackSteps(t)
    \/ \E w \in Keys : WorkerSteps(w)

SpecManual == InitManual /\ [][NextManual]_vars

(* SpecWorker: one document, tasks A and B (B waits for A), operations one   *)
(* after the other; the worker's callback returns SUCCESS, refuses or raises; *)
(* another publisher may send bodies that are no task; the caller assigns.    *)
(* A worker that holds a delivery keeps running (weak fairness).              *)
InitWorker ==
    /\ InitState
    /\ docs = {"d1"}
    /\ cfg = [seq |-> TRUE, log |-> FALSE, clients |-> {"c1"}, keys |-> {"A", "B"},
              maxAssign |-> MaxAssign, maxOps |-> MaxOps,
              depends_on |-> DependsChain, replyStates |-> [w \in Keys |-> {SUCCESS}],
              pubFail |-> FALSE, wlog |-> TRUE]

\* the steps of a worker between a delivery and its settlement
WorkerRuns(w) ==
    \/ \E s \in ProcState : start_processing_task(w, s)
    \/ start_processing_task_refuse(w) \/ start_processing_task_raise(w)
    \/ ack_and_reply(w) \/ nack_refuse_task(w)

NextWorker ==
    \/ \E t \in cfg.clients, d \in docs, k \in Keys : Task_assign(t, d, k)
    \/ \E m \in ForeignMsgs : publish_foreign(m)
    \/ \E t \in Threads : Finish(t)
    \/ \E t \in Threads : AssignSteps(t)
    \/ \E t \in Threads : run_read(t) \/ queue_task_doc(t) \/ queue_task_update(t)
    \/ \E t \in Threads : queue_task_publish(t)
    \/ \E t \in Threads : CallbackSteps(t) \/ DependencySteps(t)
    \/ \E w \in Keys : inspect_then_run_task(w) \/ WorkerRuns(w)

SpecWorker ==
    InitWorker /\ [][NextWorker]_vars /\ \A w \in Keys : WF_vars(WorkerRuns(w))

(* SpecContainer: a client builds a taskSequential or a taskParallel from    *)
(* Tasks and containers of Tasks, and calls run, retry, isDone and state on  *)
(* it, while Tasks that were run succeed and the client refreshes them.      *)
InitContainer ==
    /\ cfg = [seq |-> TRUE, log |-> FALSE, clients |-> {}, keys |-> {},
              maxAssign |-> MaxAssign, maxOps |-> MaxOps,
              depends_on |-> NoDepends, replyStates |-> [w \in Keys |-> {}],
              pubFail |-> FALSE, wlog |-> FALSE]
    /\ docs = {}
    /\ InitSys
    /\ box \in { NewBox(k) : k \in ContainerKinds }
    /\ tobj = NoObjects
    /\ fn = NoCall
    /\ proc = NoProcess

NextContainer ==
    \/ \E e \in Elements(MaxNodes - Nodes(box.tasks)) : add_task(e)
    \/ container_run
    \/ container_retry
    \/ container_isDone
    \/ container_state
    \/ \E i \in 1..MaxNodes : Task_refresh(i)
    \/ \E i \in 1..MaxNodes : task_succeeds(i)

SpecContainer == InitContainer /\ [][NextContainer]_vars

(* SpecObject: a caller holds two Task objects of key A and keeps calling    *)
(* assign on them, for two documents; publishing may fail; operations one    *)
(* after the other.                                                          *)
Objects == {"o1", "o2"}

\* Task("A"): no _id, no state, never assigned
NewTask(key) == [key |-> key, _id |-> None, state |-> None, n |-> 0]

InitObject ==
    /\ InitSys
    /\ docs = Docs
    /\ cfg = [seq |-> TRUE, log |-> FALSE, clients |-> {"c1"}, keys |-> {"A"},
              maxAssign |-> MaxAssign, maxOps |-> MaxOps,
              depends_on |-> NoDepends, replyStates |-> [w \in Keys |-> {SUCCESS}],
              pubFail |-> TRUE, wlog |-> FALSE]
    /\ box = NoBox
    /\ tobj = [o \in Objects |-> NewTask("A")]
    /\ fn = NoCall
    /\ proc = NoProcess

NextObject ==
    \/ \E t \in cfg.clients, o \in Objects, d \in docs : Task_assign_object(t, o, d)
    \/ \E t \in Threads : Finish(t)
    \/ \E t \in Threads : AssignSteps(t) \/ QueueSteps(t)
    \/ \E t \in Threads : CallbackSteps(t)
    \/ \E w \in Keys : WorkerSteps(w)

SpecObject == InitObject /\ [][NextObject]_vars

(* SpecMany: task A is assigned to documents one at a time and to lists of  *)
(* document ids with assignTaskToMany; document d2 is registered or not;     *)
(* publishing may fail; operations one after the other.                      *)
IdLists == UNION { [1..n -> Docs] : n \in 1..MaxIds }

InitMany ==
    /\ InitState
    /\ docs \in {{"d1"}, Docs}
    /\ cfg = [seq |-> TRUE, log |-> FALSE, clients |-> {"c1"}, keys |-> {"A"},
              maxAssign |-> MaxAssign, maxOps |-> MaxOps,
              depends_on |-> NoDepends, replyStates |-> [w \in Keys |-> {SUCCESS}],
              pubFail |-> TRUE, wlog |-> FALSE]

ManySteps(t) == assignTaskToMany_msearch(t) \/ assignTaskToMany_bulk(t) \/ run_async(t)

NextMany ==
    \/ \E t \in cfg.clients, d \in docs, k \in Keys : Task_assign(t, d, k)
    \/ \E t \in cfg.clients, k \in Keys, ids \in IdLists : Task_assignMany(t, k, ids)
    \/ \E t \in Threads : Finish(t)
    \/ \E t \in Threads : AssignSteps(t) \/ ManySteps(t) \/ QueueSteps(t)
    \/ \E t \in Threads : CallbackSteps(t)
    \/ \E w \in Keys : WorkerSteps(w)

SpecMany == InitMany /\ [][NextMany]_vars

(* SpecSerial: a Task or a Document is serialised with to_json and built    *)
(* again with from_json.                                                     *)
InitSerial ==
    /\ InitSys
    /\ docs = {}
    /\ cfg = [seq |-> TRUE, log |-> FALSE, clients |-> {}, keys |-> {},
              maxAssign |-> MaxAssign, maxOps |-> MaxOps,
              depends_on |-> NoDepends, replyStates |-> [w \in Keys |-> {}],
              pubFail |-> FALSE, wlog |-> FALSE]
    /\ box = NoBox
    /\ tobj = NoObjects
    /\ proc = NoProcess
    /\ fn \in { Serial("Task", x, "object", <<>>, Returns(x)) : x \in Tasks }
                \cup { Serial("Document", x, "object", <<>>, Returns(x)) : x \in Documents }

NextSerial == to_json \/ from_json

SpecSerial == InitSerial /\ [][NextSerial]_vars

(* SpecDeps: a worker checks the dependencies of document d1 against an      *)
(* index holding any of a few task records.                                  *)
InitDeps ==
    /\ store \in StoresTried
    /\ docs = Docs
    /\ queue = [m \in Msgs |-> 0]
    /\ replies = <<>>
    /\ th = [t \in Threads |-> IdleThread]
    /\ wk = [w \in Keys |-> IdleWorker]
    /\ snap = NoSnap
    /\ assignLog = [dk \in Docs \X Keys |-> NoLog]
    /\ nops = [assign |-> 0, other |-> 0]
    /\ cfg = [seq |-> TRUE, log |-> FALSE, clients |-> {}, keys |-> {},
              maxAssign |-> MaxAssign, maxOps |-> MaxOps,
              depends_on |-> NoDepends, replyStates |-> [w \in Keys |-> {}],
              pubFail |-> FALSE, wlog |-> FALSE]
    /\ box = NoBox
    /\ tobj = NoObjects
    /\ proc = NoProcess
    /\ fn \in { DepsCall(q, "input", FALSE, <<>>, FALSE) : q \in KeySeqs({"A", "B"}, MaxDeps) }

NextDeps == check_dependencies

SpecDeps == InitDeps /\ [][NextDeps]_vars

(* SpecQuiesce: one document and tasks A and B, with B waiting for A, or    *)
(* with A and B waiting for each other; a caller assigns a few times and     *)
(* then nothing more; workers report SUCCESS or ERROR_PROXY; the caller, the  *)
(* callback thread and the workers interleave and each of them keeps running. *)
InitQuiesce ==
    /\ InitState
    /\ docs = {"d1"}
    /\ \E dep \in {DependsChain, DependsMutual} :
         cfg = [seq |-> FALSE, log |-> TRUE, clients |-> {"c1"}, keys |-> {"A", "B"},
                maxAssign |-> MaxAssign, maxOps |-> MaxOps,
                depends_on |-> dep,
                replyStates |-> [w \in Keys |-> {SUCCESS, ERROR_PROXY}],
                pubFail |-> FALSE, wlog |-> FALSE]

\* the steps that are not the start of a call by an operator
Progress ==
    \/ \E t \in Threads : Finish(t)
    \/ \E t \in Threads : AssignSteps(t)
    \/ \E t \in Threads : run_read(t) \/ queue_task_doc(t) \/ queue_task_update(t)
    \/ \E t \in Threads : queue_task_publish(t)
    \/ \E t \in Threads : CallbackSteps(t) \/ DependencySteps(t)
    \/ \E w \in Keys : WorkerSteps(w)

SpecQuiesce == InitQuiesce /\ [][NextConc]_vars /\ WF_vars(Progress)

(* SpecTwoDocs: two documents, tasks A and B (B waits for A) for each;        *)
(* operations one after the other; publishing works; workers report SUCCESS  *)
(* or ERROR_PROXY; the caller assigns.                                       *)
InitTwoDocs ==
    /\ InitState
    /\ docs = Docs
    /\ cfg = [seq |-> TRUE, log |-> FALSE, clients |-> {"c1"}, keys |-> {"A", "B"},
              maxAssign |-> MaxAssign, maxOps |-> MaxOps,
              depends_on |-> DependsChain,
              replyStates |-> [w \in Keys |-> {SUCCESS, ERROR_PROXY}],
              pubFail |-> FALSE, wlog |-> FALSE]

SpecTwoDocs == InitTwoDocs /\ [][NextConc]_vars

(* SpecProcess: the process of worker B (depends on A) with messages of     *)
(* document d1 (A done) and document d2 (A not assigned) ready in its queue;  *)
(* run, stop and the callback threads interleave with the broker.             *)
InitProcess ==
    /\ store = {TaskRecord(TaskId("d1", "A"), "d1", "A", SUCCESS, "worker")}
    /\ docs = Docs
    /\ queue \in { [m \in Msgs |-> IF m = TaskMessage(TaskId("d1", WorkerKey), WorkerKey, "d1")
                                   THEN n1
                                   ELSE IF m = TaskMessage(TaskId("d2", WorkerKey), WorkerKey, "d2")
                                   THEN n2 ELSE 0] : n1 \in 0..MaxMsgs, n2 \in 0..MaxMsgs }
    /\ replies = <<>>
    /\ th = [t \in Threads |-> IdleThread]
    /\ wk = [w \in Keys |-> IdleWorker]
    /\ snap = NoSnap
    /\ assignLog = [dk \in Docs \X Keys |-> NoLog]
    /\ nops = [assign |-> 0, other |-> 0]
    /\ cfg = [seq |-> FALSE, log |-> FALSE, clients |-> {}, keys |-> {WorkerKey},
              maxAssign |-> MaxAssign, maxOps |-> MaxOps,
              depends_on |-> DependsChain, replyStates |-> [w \in Keys |-> {SUCCESS}],
              pubFail |-> FALSE, wlog |-> FALSE]
    /\ box = NoBox
    /\ tobj = NoObjects
    /\ fn = NoCall
    /\ proc = NewProcess

NextProcess ==
    \/ connect
    \/ worker_run
    \/ worker_stop
    \/ \E m \in Msgs : broker_deliver(m)
    \/ process_scheduled
    \/ consume_yield
    \/ consume_check
    \/ consume_dispatch
    \/ \E i \in 1..MaxMsgs, o \in Outcomes : thread_callback(i, o)

SpecProcess == InitProcess /\ [][NextProcess]_vars

\* the thread of run() keeps running: consume yields at the latest when the
\* inactivity timeout has passed, and the loop body follows
SpecProcessFair ==
    /\ SpecProcess
    /\ WF_vars(consume_yield) /\ WF_vars(consume_check) /\ WF_vars(consume_dispatch)

----------------------------------------------------------------------------
(* Properties *)

\* C2: a successful assignTask stores the task in state CREATED and runs it at
\* once: when assignTask returns and the publish went through, the task is
\* QUEUED and exactly one message for it has been published.
C2_AssignCreatesThenQueues ==
    \A t \in Threads :
        LET r == th[t]
            id == TaskId(r.doc, r.key)
        IN  /\ (r.pc = "run_read" /\ r.task \in r.created
                    /\ r.ret \in {"done", "callback_dep_run"})
                => \E x \in store : x.id = r.task /\ x.state = CREATED /\ x.msg = "Created"
            /\ ( \/ (r.op = "assign" /\ r.pc = "done" /\ r.exc = "none")
                 \/ r.pc = "callback_dep_run" )
                => /\ \E x \in store : x.id = id /\ x.parent = r.doc /\ x.key = r.key
                                       /\ x.state = QUEUED
                   /\ id \in r.created
                   /\ queue[TaskMessage(id, r.key, r.doc)]
                        = snap.queue[TaskMessage(id, r.key, r.doc)] + 1
            /\ (r.op = "assign" /\ r.pc = "done" /\ r.exc = "none")
                => queue = QueuePlus(snap.queue, store, id)

C2_Witness ==
    \E t \in Threads : th[t].op = "assign" /\ th[t].pc = "done" /\ th[t].exc = "none"

\* C3: run(task_id) sets the task QUEUED and publishes it if and only if the
\* stored state is CREATED, TASK_RESET, UNFINISHED_DEPENDENCY,
\* ERROR_INVALID_INPUT or ERROR_PROXY (a publish that raises leaves ERROR and no
\* message); from every other state run changes neither the store nor the queue.
C3_RunGating ==
    \A t \in Threads :
        (th[t].op = "run" /\ th[t].pc = "done") =>
            LET id == th[t].task
                s == StoredTask(snap.store, id).state
            IN  IF s \in {201, 205, 412, 502, 503}
                THEN \/ /\ th[t].exc = "none"
                        /\ store = StoreWith(snap.store, id, 102, "Queued")
                        /\ queue = QueuePlus(snap.queue, snap.store, id)
                     \/ /\ th[t].exc = "PublishError"
                        /\ store = StoreWith(snap.store, id, 500, "publish failed")
                        /\ queue = snap.queue
                ELSE /\ s \in {200, 102, 400, 403, 404, 409, 422, 500}
                     /\ th[t].exc = "none"
                     /\ store = snap.store
                     /\ queue = snap.queue

C3_Witness ==
    \E t \in Threads :
        /\ th[t].op = "run" /\ th[t].pc = "done" /\ th[t].exc = "none"
        /\ StoredTask(snap.store, th[t].task).state = ERROR_PROXY
        /\ StoredTask(store, th[t].task).state = QUEUED

\* C4: retry(task_id, force=False) changes nothing when the stored state is
\* QUEUED or SUCCESS and queues the task from every other state;
\* retry(task_id, force=True) queues the task from every state.
C4_RetryGating ==
    \A t \in Threads :
        (th[t].op = "retry" /\ th[t].pc = "done") =>
            LET id == th[t].task
                s == StoredTask(snap.store, id).state
            IN  IF th[t].force \/ s \notin {102, 200}
                THEN \/ /\ th[t].exc = "none"
                        /\ store = StoreWith(snap.store, id, 102, "Queued")
                        /\ queue = QueuePlus(snap.queue, snap.store, id)
                     \/ /\ th[t].exc = "PublishError"
                        /\ store = StoreWith(snap.store, id, 500, "publish failed")
                        /\ queue = snap.queue
                ELSE /\ th[t].exc = "none"
                     /\ store = snap.store
                     /\ queue = snap.queue

C4_Witness ==
    \E t \in Threads :
        /\ th[t].op = "retry" /\ th[t].pc = "done" /\ th[t].exc = "none"
        /\ th[t].force
        /\ StoredTask(snap.store, th[t].task).state = SUCCESS
        /\ StoredTask(store, th[t].task).state = QUEUED

\* the reporting task of a running callback existed when the callback started
CallbackOn(t) ==
    /\ th[t].op = "callback"
    /\ \E x \in snap.store : x.id = th[t].cbTask

\* C5: callback stores the reported state and message before it looks at
\* dependencies or siblings: from that point to its return the stored state and
\* message of the task are the reported ones, also when creating a dependency
\* or running a sibling raised.
C5_CallbackPersistsReport ==
    \A t \in Threads :
        (CallbackOn(t) /\ th[t].pc \notin {"callback_key", "callback_update"})
            => \E x \in store : /\ x.id = th[t].cbTask
                                /\ x.state = th[t].cbState
                                /\ x.msg = th[t].cbMsg

C5_Witness ==
    \E t \in Threads :
        /\ CallbackOn(t) /\ th[t].pc = "done"
        /\ th[t].exc = "PublishError"
        /\ th[t].ran # {}
        /\ StoredTask(store, th[t].cbTask).state = th[t].cbState

\* the siblings the cascade has to run, from the states stored when callback began
CascadeExpected(t) ==
    LET T == StoredTask(snap.store, th[t].cbTask)
    IN  { x.id : x \in { y \in snap.store :
                            /\ y.parent = T.parent
                            /\ y.id # T.id
                            /\ \/ y.state \in {201, 502, 503}
                               \/ (y.state = 412 /\ th[t].cbState = 200) } }

\* C6: a callback reporting SUCCESS runs exactly the siblings in CREATED,
\* ERROR_INVALID_INPUT, ERROR_PROXY or UNFINISHED_DEPENDENCY, one reporting
\* UNFINISHED_DEPENDENCY exactly those in CREATED, ERROR_INVALID_INPUT or
\* ERROR_PROXY; the reporting task and siblings in any other state are never
\* run.  (Stated for callbacks in which no publish failed.)
C6_CascadeSelection ==
    \A t \in Threads :
        (CallbackOn(t) /\ th[t].pc = "done" /\ th[t].exc # "PublishError"
            /\ th[t].cbState \in {200, 412})
          => th[t].ran = CascadeExpected(t)

\* the scenario of C7: A and B are CREATED, C is waiting (412), and the callback
\* of A reporting SUCCESS has returned without an exception
CascadeScenario(t) ==
    /\ CallbackOn(t) /\ th[t].pc = "done" /\ th[t].exc = "none"
    /\ th[t].cbTask = TaskId("d1", "A") /\ th[t].cbState = SUCCESS
    /\ StoredTask(snap.store, TaskId("d1", "A")).state = CREATED
    /\ \E x \in snap.store : x.id = TaskId("d1", "B") /\ x.state = CREATED
    /\ \E x \in snap.store : x.id = TaskId("d1", "C") /\ x.state = UNFINISHED_DEPENDENCY

\* C7 (as stated): in that scenario the callback runs B but not C.
C7_Original ==
    \A t \in Threads :
        CascadeScenario(t) =>
            (TaskId("d1", "B") \in th[t].ran /\ TaskId("d1", "C") \notin th[t].ran)

\* C7 (amended): in that scenario the callback runs both B and C: the waiting
\* task is queued again by the SUCCESS of any sibling, whether or not its own
\* dependencies have reached SUCCESS.
C7_CascadeRunsWaiting ==
    \A t \in Threads :
        CascadeScenario(t) =>
            /\ th[t].ran = {TaskId("d1", "B"), TaskId("d1", "C")}
            /\ StoredTask(store, TaskId("d1", "B")).state = QUEUED
            /\ StoredTask(store, TaskId("d1", "C")).state = QUEUED
            /\ queue[TaskMessage(TaskId("d1", "C"), "C", "d1")]
                 = snap.queue[TaskMessage(TaskId("d1", "C"), "C", "d1")] + 1

C7_Witness == \E t \in Threads : CascadeScenario(t)

\* C8: a callback reporting a state other than SUCCESS and
\* UNFINISHED_DEPENDENCY changes the state and message of the reporting task
\* only: no sibling is run, no task is created and nothing is published.
C8_FailureReportOnly ==
    \A t \in Threads :
        (CallbackOn(t) /\ th[t].pc = "done" /\ th[t].cbState \notin {200, 412})
            => /\ th[t].exc = "none"
               /\ store = StoreWith(snap.store, th[t].cbTask, th[t].cbState, th[t].cbMsg)
               /\ queue = snap.queue
               /\ th[t].ran = {}
               /\ th[t].created = {}

C8_Witness ==
    \E t \in Threads :
        /\ CallbackOn(t) /\ th[t].pc = "done" /\ th[t].cbState = ERROR_PROXY
        /\ \E x \in snap.store : x.id # th[t].cbTask /\ x.state = CREATED

\* C9: when a callback reporting UNFINISHED_DEPENDENCY with a non-empty list of
\* dependencies has returned, every key of the list has a task assigned to the
\* document, and every task the callback created is QUEUED.  (Stated for
\* callbacks in which no publish failed.)
C9_DependenciesCreated ==
    \A t \in Threads :
        (CallbackOn(t) /\ th[t].pc = "done" /\ th[t].cbState = 412
            /\ th[t].hasDeps /\ Len(th[t].cbDeps) > 0 /\ th[t].exc # "PublishError")
          => LET d == StoredTask(snap.store, th[t].cbTask).parent
             IN  /\ \A i \in 1..Len(th[t].cbDeps) :
                        \E x \in store : x.parent = d /\ x.key = th[t].cbDeps[i]
                 /\ \A id \in th[t].created : StoredTask(store, id).state = QUEUED

\* C1: whatever the interleaving of the assignTask calls for a document and a
\* key, at most one of them returns, every other one raises TaskAssignedError,
\* one has created the task whenever another got TaskAssignedError, exactly one
\* has returned once all are over, and the store never holds two tasks with the
\* same key for a document.
C1_AssignOnce ==
    \A d \in Docs, k \in Keys :
        LET log == assignLog[<<d, k>>]
            running == { t \in Threads : th[t].pc # "idle" }
        IN  /\ log.ok <= 1
            /\ log.failed = 0
            /\ Cardinality({ x \in store : x.parent = d /\ x.key = k }) <= 1
            /\ log.conflict > 0 =>
                 \/ log.ok = 1
                 \/ \E t \in running : TaskId(d, k) \in th[t].created
            /\ (running = {} /\ log.ok + log.conflict > 0) => log.ok = 1

\* one caller got TaskAssignedError while the call that created the task is running
C1_Witness ==
    \E t, u \in Clients :
        /\ th[t].op = "assign" /\ th[t].pc = "done" /\ th[t].exc = "TaskAssignedError"
        /\ th[u].op = "assign" /\ th[u].pc = "run_read"
        /\ th[u].doc = th[t].doc /\ th[u].key = th[t].key
        /\ th[u].task \in th[u].created

\* nothing is running, queued or waiting to be called back: without a new call
\* of a client no step is left to take
Settled ==
    /\ Quiet
    /\ \A m \in Msgs : queue[m] = 0
    /\ replies = <<>>

\* every depends_on key of the worker of task x has a task in SUCCESS
DependenciesMet(x) ==
    \A i \in 1..Len(cfg.depends_on[x.key]) :
        \E y \in store : /\ y.parent = x.parent
                         /\ y.key = cfg.depends_on[x.key][i]
                         /\ y.state = SUCCESS

\* C10: a task whose depends_on tasks have all reached SUCCESS leaves
\* UNFINISHED_DEPENDENCY and reaches SUCCESS, for every interleaving of worker
\* replies and callbacks.  On finite runs: once nothing is left to run, no task
\* is waiting in UNFINISHED_DEPENDENCY with all its dependencies in SUCCESS.
C10_WaitingTaskReleased ==
    Settled =>
        \A x \in store : ~ (x.state = UNFINISHED_DEPENDENCY /\ DependenciesMet(x))

WorkerTask(w, d) == [key |-> w, parent |-> d]

\* C11: the worker's callback runs for a task only when every key of the
\* worker's depends_on has a task of the same document in SUCCESS; as long as
\* one of them has not reached SUCCESS the callback is not run.
C11_CallbackAfterDependencies ==
    \A w \in Keys :
        (wk[w].pc = "processing" \/ wk[w].cause \in {"returned", "refused", "raised"})
            => DependenciesMet(WorkerTask(w, wk[w].msg.doc))

C11_Witness ==
    \E w \in Keys :
        /\ wk[w].pc = "processing"
        /\ Len(cfg.depends_on[w]) = 2
        /\ DependenciesMet(WorkerTask(w, wk[w].msg.doc))

\* C15: a message that does not decode to an object with a task and a document
\* section is answered with BAD_REQUEST and acknowledged; it is not requeued
\* and the worker's callback is not run for it.
C15_MalformedIsBadRequest ==
    \A w \in Keys :
        /\ wk[w].msg.body = "incomplete" => wk[w].pc \in {"reply"}
        /\ wk[w].last.msg.body = "incomplete"
             => /\ wk[w].last.settled = "ack"
                /\ wk[w].last.state = BAD_REQUEST

\* the depends_on keys of worker w without a task for document d, in order
MissingKeys(w, d) ==
    SelectSeq(cfg.depends_on[w],
              LAMBDA k : ~ \E x \in store : x.parent = d /\ x.key = k)

\* C16: when the dependencies of a received task are not met the worker does
\* not run its callback: it replies UNFINISHED_DEPENDENCY with the list of the
\* keys that have no task (empty when all are assigned but not all done),
\* acknowledges the message and does not requeue it.
C16_UnmetDependenciesReply ==
    \A w \in Keys :
        /\ ( /\ wk[w].pc # "idle"
             /\ wk[w].msg.body = "task+document"
             /\ ~ DependenciesMet(WorkerTask(w, wk[w].msg.doc)) )
             => /\ wk[w].pc = "reply"
                /\ wk[w].cause = "unmet"
                /\ wk[w].resp.state = UNFINISHED_DEPENDENCY
                /\ wk[w].resp.hasDeps
                /\ wk[w].resp.dependencies = MissingKeys(w, wk[w].msg.doc)
                /\ queue[wk[w].msg] = 0
        /\ wk[w].last.cause = "unmet"
             => /\ wk[w].last.settled = "ack"
                /\ wk[w].last.state = UNFINISHED_DEPENDENCY

C16_Witness ==
    \E w \in Keys :
        /\ wk[w].pc = "reply" /\ wk[w].cause = "unmet"
        /\ wk[w].resp.dependencies = <<>>

\* C17: when the worker's callback raises RefuseJobException the message goes
\* back to the queue, no reply is published, and the refusal changes no task:
\* the task is as it was (QUEUED) when the message was delivered.
C17_RefusalRequeues ==
    /\ [][\A w \in Keys :
            (wk[w].pc # "idle" /\ wk'[w].cause = "refused")
                => /\ store' = store
                   /\ replies' = replies
                   /\ \/ wk'[w].pc = "nack" /\ queue' = queue
                      \/ /\ wk'[w].pc = "idle"
                         /\ queue' = [queue EXCEPT ![wk[w].msg] = @ + 1]]_vars
    /\ [](\A w \in Keys : wk[w].last.cause = "refused" => wk[w].last.settled = "nack")

C17_Witness ==
    \E w \in Keys :
        /\ wk[w].pc = "idle" /\ wk[w].last.cause = "refused"
        /\ queue[wk[w].last.msg] = 1
        /\ replies = <<>>
        /\ StoredTask(store, wk[w].last.msg.corr).state = QUEUED

\* C18: when the worker's callback raises another exception the worker replies
\* ERROR with the text of the exception, acknowledges the message without
\* requeueing it, and is back in its consume loop, where it takes the next
\* message.
C18_WorkerErrorReply ==
    /\ [][\A w \in Keys :
            (wk[w].cause = "raised" /\ wk'[w] # wk[w])
                => /\ wk'[w].pc = "idle"
                   /\ replies' = Append(replies, [corr |-> wk[w].msg.corr, state |-> ERROR,
                                                  message |-> "Unhandled worker error",
                                                  hasDeps |-> FALSE,
                                                  dependencies |-> <<>>])
                   /\ queue' = queue /\ store' = store]_vars
    /\ [](\A w \in Keys :
            wk[w].last.cause = "raised"
                => /\ wk[w].last.settled = "ack" /\ wk[w].last.state = ERROR
                   /\ (Quiet /\ \E m \in Msgs : m.key = w /\ queue[m] > 0)
                        => ENABLED inspect_then_run_task(w))

C18_Witness ==
    \E w \in Keys :
        /\ wk[w].last.cause = "raised"
        /\ wk[w].pc # "idle" /\ wk[w].msg # wk[w].last.msg

\* C13: callback never raises to its caller: every exception inside it is
\* caught, the consumer of the replies goes on, and a callback for a task id
\* that is not in the index changes nothing in the store and publishes nothing.
C13_CallbackContainsFailures ==
    \A t \in Threads :
        /\ th[t].pc # "crashed"
        /\ (th[t].op = "callback" /\ th[t].pc = "done")
             => /\ ~ Propagates(th[t])
                /\ (~ \E x \in snap.store : x.id = th[t].cbTask)
                     => /\ th[t].exc = "TaskExistsError"
                        /\ store = snap.store
                        /\ queue = snap.queue

C13_Witness ==
    \E t \in Threads :
        /\ th[t].op = "callback" /\ th[t].pc = "done"
        /\ th[t].exc = "TaskExistsError"
        /\ snap.store # {}
        /\ ~ \E x \in snap.store : x.id = th[t].cbTask

\* a message for task id is published by the step
PublishedFor(id) == \E m \in Msgs : m.corr = id /\ queue'[m] > queue[m]

\* the step changes the state of task x or publishes a message for it
Moves(x) == PublishedFor(x.id) \/ StoredTask(store', x.id).state # x.state

\* C12 (as stated): a task in BAD_REQUEST, ACCESS_DENIED, NOT_FOUND,
\* NO_ROUTE_TO_QUEUE or ERROR keeps its state and is not published, except by
\* retry(force=True) or reset() on that task.
C12_Original ==
    [][\A x \in store :
        (x.state \in ManualStates /\ Moves(x))
            => \E t \in Threads :
                 /\ th[t].task = x.id
                 /\ th[t].op = "reset" \/ (th[t].op = "retry" /\ th[t].force)]_vars

\* C12 (amended): such a task is never published nor changed by run() or by the
\* cascade of a callback; it keeps its state until retry (with or without force)
\* or reset is called on it, or a worker's reply for the task itself is stored.
C12_ManualStatesHalt ==
    [][\A x \in store :
        (x.state \in ManualStates /\ Moves(x))
            => \E t \in Threads :
                 \/ th[t].task = x.id /\ th[t].op \in {"retry", "reset"}
                 \/ /\ th[t].op = "callback" /\ th[t].pc = "callback_update"
                    /\ th[t].cbTask = x.id
                    /\ ~ PublishedFor(x.id)]_vars

C12_Witness ==
    \E t \in Threads :
        /\ CallbackOn(t) /\ th[t].pc = "done" /\ th[t].cbState = SUCCESS
        /\ \E x \in store : x.id # th[t].cbTask /\ x.state = ERROR /\ x \in snap.store
        /\ queue = snap.queue


\* the document holds the one task x, of a worker that depends on nothing
SingleTask(st, x) ==
    /\ st = {x}
    /\ cfg.depends_on[x.key] = <<>>

\* C19: with one task A on a document and a worker of A without dependencies,
\* assigning A stores it as CREATED, and when assignTask returns it is QUEUED
\* with one message published; when the reply 200 comes in, callback sets A to
\* SUCCESS, its cascade runs no sibling, creates no task, publishes nothing
\* and changes no other state.
C19_SingleTaskLifecycle ==
    \A t \in Threads :
        /\ (th[t].op = "assign" /\ snap.store = {} /\ cfg.depends_on[th[t].key] = <<>>)
              => /\ th[t].pc \in {"run_read", "queue_task_doc", "queue_task_update"}
                      => /\ store = {TaskRecord(TaskId(th[t].doc, th[t].key), th[t].doc,
                                                th[t].key, CREATED, "Created")}
                         /\ queue = snap.queue
                 /\ (th[t].pc = "done" /\ th[t].exc = "none")
                      => /\ \E x \in store : /\ store = {x}
                                             /\ x.id = TaskId(th[t].doc, th[t].key)
                                             /\ x.state = QUEUED
                         /\ queue = QueuePlus(snap.queue, store, TaskId(th[t].doc, th[t].key))
        /\ (/\ CallbackOn(t) /\ th[t].cbState = SUCCESS /\ th[t].pc = "done"
            /\ \E x \in snap.store : SingleTask(snap.store, x))
              => /\ th[t].exc = "none"
                 /\ th[t].ran = {} /\ th[t].created = {}
                 /\ queue = snap.queue
                 /\ store = StoreWith(snap.store, th[t].cbTask, SUCCESS, th[t].cbMsg)

C19_Witness ==
    \E t \in Threads :
        /\ CallbackOn(t) /\ th[t].cbState = SUCCESS /\ th[t].pc = "done"
        /\ \E x \in snap.store : SingleTask(snap.store, x) /\ x.state = QUEUED
        /\ \E x \in store : store = {x} /\ x.state = SUCCESS
        /\ \A m \in Msgs : queue[m] = 0


\* C20: every task in the store belongs to an existing document: once the
\* register, assign and delete calls have returned (an assignTask may have
\* interleaved with a deleteDocument of the same document), no task remains
\* whose parent document is gone.
C20_TasksHaveParent ==
    Quiet => \A x \in store : x.parent \in docs


\* the result of isDone() of element i of the container
ElementDone(i) == taskContainer_isDone(box.tasks[i])

\* the elements whose isDone() does not return True: it returns False or raises
NotDone == { i \in 1..Len(box.tasks) : ElementDone(i) # Returns(TRUE) }

Least(S) == CHOOSE i \in S : \A j \in S : i <= j

\* C21: run() and retry() of a taskSequential call run() (retry()) on exactly
\* one element, the first in insertion order whose isDone() is false, and on
\* none when all are done; an element is never called while an earlier one is
\* not done.  (When isDone() of the first element that is not done raises, the
\* exception ends run() before any call.)
C21_SequentialRunsFirstNotDone ==
    (box.kind = "taskSequential" /\ box.op \in {"run", "retry"})
        => IF NotDone = {} THEN box.calls = <<>> /\ box.exc = NoExc
           ELSE LET f == Least(NotDone)
                IN  IF ElementDone(f) = Returns(FALSE)
                    THEN box.calls = <<f>>
                    ELSE box.calls = <<>> /\ box.exc = ElementDone(f).exc

\* run() advances: element 1 was run by an earlier call, is done now, and this
\* run() called element 2
C21_Witness ==
    /\ box.kind = "taskSequential" /\ box.op = "run"
    /\ box.calls = <<2>> /\ box.exc = NoExc
    /\ 1 \in box.ran
    /\ ElementDone(1) = Returns(TRUE)

AllLeaves ==
    { box.tasks[i] : i \in { i \in 1..Len(box.tasks) : box.tasks[i].kind = "task" } }
        \cup UNION { { box.tasks[i].tasks[j] : j \in 1..Len(box.tasks[i].tasks) } :
                     i \in 1..Len(box.tasks) }

\* the state a Task object reports: its own when set, else the one in the index
ReportedState(l) == IF l.state # None THEN l.state ELSE l.stored

\* C23: isDone() of a container returns True if and only if every Task below
\* it, at any depth, reports state SUCCESS; an empty container is done.
C23_DoneIffAllSuccess ==
    (box.kind \in ContainerKinds /\ box.op = "isDone")
        => ((box.exc = NoExc /\ box.done)
               <=> \A l \in AllLeaves : ReportedState(l) = Some(SUCCESS))

\* a nested container whose Tasks are done, beside a done Task
C23_Witness ==
    /\ box.kind \in ContainerKinds /\ box.op = "isDone" /\ box.done
    /\ \E i \in 1..Len(box.tasks) : box.tasks[i].kind \in ContainerKinds
                                    /\ Len(box.tasks[i].tasks) > 0
    /\ \E i \in 1..Len(box.tasks) : box.tasks[i].kind = "task"

\* the Task objects of the container in traversal order
RECURSIVE Traversal(_)
Traversal(tasks) ==
    IF tasks = <<>> THEN <<>>
    ELSE (IF Head(tasks).kind = "task" THEN <<Head(tasks)>> ELSE Head(tasks).tasks)
            \o Traversal(Tail(tasks))

\* C24: state() of a container returns the state of the first Task in
\* traversal order that is not done, and 200 when all are done.
C24_StateOfFirstNotDone ==
    (box.kind \in ContainerKinds /\ box.op = "state")
        => LET tr == Traversal(box.tasks)
               nd == { i \in 1..Len(tr) : ReportedState(tr[i]) # Some(SUCCESS) }
           IN  IF nd = {} THEN box.exc = NoExc /\ box.code = 200
               ELSE ReportedState(tr[Least(nd)]) # None
                       => box.exc = NoExc /\ box.code = The(ReportedState(tr[Least(nd)]))


\* C25: Task.assign on a Task object that has an _id raises
\* APIRegistrationError and contacts neither the index nor the queue; a Task
\* object is assigned at most once, and its _id never changes once it is set.
C25_AssignedOnlyOnce ==
    /\ [](\A t \in Threads :
            (th[t].op = "assign" /\ th[t].obj # "" /\ th[t].exc = "APIRegistrationError")
                => /\ store = snap.store /\ queue = snap.queue
                   /\ tobj[th[t].obj]._id # None)
    /\ [](\A o \in DOMAIN tobj : tobj[o].n <= 1 /\ (tobj[o].n = 1 <=> tobj[o]._id # None))
    /\ [][\A o \in DOMAIN tobj :
            /\ tobj[o]._id # None => tobj'[o]._id = tobj[o]._id
            /\ (tobj[o]._id # None /\ \E t \in Threads : th'[t].obj = o /\ th[t].pc = "idle")
                  => \E t \in Threads : th'[t].exc = "APIRegistrationError" /\ th'[t].pc = "done"]_vars

\* assign was refused on an object whose task has been queued meanwhile
C25_Witness ==
    \E t \in Threads :
        /\ th[t].op = "assign" /\ th[t].obj # "" /\ th[t].exc = "APIRegistrationError"
        /\ th[t].doc # StoredTask(store, The(tobj[th[t].obj]._id)).parent


\* C26: Task.reset() sets the stored state of the task to CREATED (201) with
\* message "Reset", whatever the state was, and publishes nothing; a message
\* for a task is published only by a run(), a retry(), an assignTask or the
\* cascade of a callback.
C26_ResetToCreated ==
    /\ [](\A t \in Threads :
            (th[t].op = "reset" /\ th[t].pc = "done" /\ th[t].exc = "none")
                => /\ store = StoreWith(snap.store, th[t].task, CREATED, "Reset")
                   /\ queue = snap.queue)
    /\ [][\A x \in store :
            PublishedFor(x.id)
                => \E t \in Threads : /\ th[t].pc = "queue_task_publish"
                                      /\ th[t].task = x.id
                                      /\ th[t].op \in {"run", "retry", "assign", "callback"}]_vars

\* a task that was in SUCCESS has been reset
C26_Witness ==
    \E t \in Threads :
        /\ th[t].op = "reset" /\ th[t].pc = "done"
        /\ StoredTask(snap.store, th[t].task).state = SUCCESS
        /\ StoredTask(store, th[t].task).state = CREATED
        /\ StoredTask(store, th[t].task).msg = "Reset"


\* how often document d is named in a list of ids, and in a failed list
Occurrences(document_ids, d) ==
    Cardinality({ i \in 1..Len(document_ids) : document_ids[i] = d })

FailedFor(failed, d) ==
    Cardinality({ i \in 1..Len(failed) : failed[i].document_id = d })

\* an assignTaskToMany call and its runs are over
ManyDone(t) == th[t].op = "assignMany" /\ th[t].pc = "done"

\* C27: assignTaskToMany reports every input document id once, in the success
\* list when the task of that document was created by the call, in the failed
\* list when the document does not exist or the task was assigned to it
\* before; every task the call created is run afterwards, also when running
\* another one failed.
C27_AssignToManyReports ==
    \A t \in Threads :
        ManyDone(t)
            => /\ \A d \in Docs :
                     Occurrences(th[t].success, d) + FailedFor(th[t].failed, d)
                        = Occurrences(th[t].ids, d)
               /\ \A i \in 1..Len(th[t].success) :
                     TaskId(th[t].success[i], th[t].key) \in th[t].created
               /\ \A i \in 1..Len(th[t].failed) :
                     \/ th[t].failed[i].document_id \notin docs
                     \/ \E x \in snap.store : x.id = TaskId(th[t].failed[i].document_id, th[t].key)
               /\ th[t].created \subseteq th[t].ran

\* the same, for calls whose document ids are all different
AssignToManyDistinctIds ==
    \A t \in Threads :
        (ManyDone(t) /\ \A d \in Docs : Occurrences(th[t].ids, d) <= 1)
            => /\ \A d \in Docs :
                     Occurrences(th[t].success, d) + FailedFor(th[t].failed, d)
                        = Occurrences(th[t].ids, d)
               /\ \A i \in 1..Len(th[t].success) :
                     TaskId(th[t].success[i], th[t].key) \in th[t].created
               /\ \A i \in 1..Len(th[t].failed) :
                     \/ th[t].failed[i].document_id \notin docs
                     \/ \E x \in snap.store : x.id = TaskId(th[t].failed[i].document_id, th[t].key)
               /\ th[t].created \subseteq th[t].ran


\* C28: Task.from_json(task.to_json()) has the key, priority, state, msg and
\* args of the task; Document.from_json(doc.to_json()) has the target and the
\* creator of the document.
C28_RoundTrip ==
    (fn.f \in {"Task", "Document"} /\ fn.stage = "loaded")
        => /\ fn.back.exc = NoExc
           /\ fn.f = "Task"
                => /\ fn.back.val.key = fn.obj.key
                   /\ fn.back.val.priority = fn.obj.priority
                   /\ fn.back.val.state = fn.obj.state
                   /\ fn.back.val.msg = fn.obj.msg
                   /\ fn.back.val.args = fn.obj.args
           /\ fn.f = "Document"
                => /\ fn.back.val.target = fn.obj.target
                   /\ fn.back.val.creator = fn.obj.creator

\* a task with a state and arguments went through to_json and from_json
C28_Witness ==
    /\ fn.f = "Task" /\ fn.stage = "loaded"
    /\ fn.obj.state = Some(SUCCESS)
    /\ "PATH" \in DOMAIN fn.obj.args
    /\ Len(fn.text) = 8


\* the messages of task (d, k) that are outstanding: the copies in the work
\* queue and the one a worker is processing
Outstanding(d, k) ==
    LET m == TaskMessage(TaskId(d, k), k, d)
    IN  queue[m] + Cardinality({ w \in Keys : wk[w].pc # "idle" /\ wk[w].msg = m })

\* C29: under assign, run and callback, at no time are two messages of the
\* same task outstanding, also when run() is entered for the task by two
\* threads at once.
C29_OneMessagePerTask ==
    \A d \in Docs, k \in Keys : Outstanding(d, k) <= 1


\* the tasks of key k assigned to document d1
AssignedWithKey(k) == { t \in store : t.parent = "d1" /\ t.key = k }

\* C30: _check_task_dependencies returns as missing the depends_on keys, in
\* declaration order, that have no assigned task, and done iff every
\* depends_on key has an assigned task and all tasks of that key are in
\* SUCCESS; with an empty depends_on it returns (true, []) without a query.
C30_DependencyCheck ==
    (fn.f = "deps" /\ fn.stage = "checked")
        => /\ fn.missing = SelectSeq(fn.depends_on, LAMBDA k : AssignedWithKey(k) = {})
           /\ fn.done <=> \A i \in 1..Len(fn.depends_on) :
                             /\ AssignedWithKey(fn.depends_on[i]) # {}
                             /\ \A t \in AssignedWithKey(fn.depends_on[i]) : t.state = SUCCESS
           /\ fn.depends_on = <<>> => (fn.done /\ fn.missing = <<>> /\ ~ fn.queried)
           /\ fn.depends_on # <<>> => fn.queried

\* a dependency without a task is reported after an earlier dependency was
\* found assigned but not done
C30_Witness ==
    /\ fn.f = "deps" /\ fn.stage = "checked"
    /\ Len(fn.depends_on) = 2
    /\ \E t \in AssignedWithKey(fn.depends_on[1]) : t.state # SUCCESS
    /\ AssignedWithKey(fn.depends_on[2]) = {}
    /\ fn.missing = <<fn.depends_on[2]>>
    /\ ~ fn.done


\* deliveries the worker process holds: received, yielded, in a callback
\* thread, or with their settlement scheduled
Held ==
    Len(proc.buffer) + (IF proc.cur # NoMsg THEN 1 ELSE 0)
        + Len(proc.running) + Len(proc.scheduled)

\* C31: with prefetch 1 at most one callback executes in a worker process, and
\* while a delivery is not settled (in its callback thread or with its
\* ack/nack still to be sent) the process holds no other delivery.
C31_OneCallbackAtATime ==
    proc.loop # "none"
        => /\ Len(proc.running) <= 1
           /\ Held <= proc.unacked
           /\ proc.unacked <= Prefetch

\* a callback is executing while another message is ready in the queue
C31_Witness ==
    /\ proc.loop # "none"
    /\ Len(proc.running) = 1
    /\ \E m \in Msgs : m.key = WorkerKey /\ queue[m] > 0


\* C32: after stop() on a connected worker the consume loop exits at its next
\* check of the flag, which comes at the latest after one inactivity timeout;
\* no delivery is dispatched after stop() except the one whose iteration had
\* already passed the check; stop() leaves a running callback thread alone.
C32_StopExitsLoop ==
    /\ [](proc.loop # "none" => proc.late <= (IF proc.midway THEN 1 ELSE 0))
    /\ [][(proc.loop = "check" /\ proc.interrupted /\ proc'.loop # "check")
            => proc'.loop = "exited"]_vars
    /\ [][(~ proc.interrupted /\ proc'.interrupted)
            => (proc'.running = proc.running /\ proc'.scheduled = proc.scheduled)]_vars
    /\ [][(proc.loop = "exited" /\ proc.running # <<>> /\ proc'.running # proc.running)
            => Len(proc'.scheduled) = Len(proc.scheduled) + 1]_vars
    /\ (proc.loop \in {"waiting", "check", "dispatch"} /\ proc.interrupted)
            ~> (proc.loop = "exited")

\* the loop has exited after stop() with a message still ready and a callback
\* thread still running
C32_Witness ==
    /\ proc.loop = "exited" /\ proc.interrupted
    /\ Len(proc.running) = 1
    /\ \E m \in Msgs : m.key = WorkerKey /\ queue[m] > 0


\* C33: every task getUnfinished(only_runnable=True) returns is in a state
\* from which run(task_id) publishes it.
C33_UnfinishedAreRunnable ==
    \A t \in getUnfinished(store, docs, TRUE) : RunQueues(t.state)


\* thread t takes the step
Steps(t) == th'[t] # th[t]

\* C34: _queue_task publishes with QUEUED already stored, and its QUEUED write
\* comes before anything this call published for the task; a publish that
\* raises leaves the task in ERROR with the error text, publishes nothing and
\* raises to the caller, so that no failed publish leaves the task QUEUED.
C34_QueuedThenPublished ==
    /\ [][\A t \in Threads :
            (th[t].pc = "queue_task_update" /\ Steps(t))
                => /\ StoredTask(store', th[t].task).state = QUEUED
                   /\ queue' = queue
                   /\ queue[Message(store, th[t].task, th[t].doc)]
                        = snap.queue[Message(store, th[t].task, th[t].doc)]]_vars
    /\ [][\A t \in Threads :
            (th[t].pc = "queue_task_publish" /\ Steps(t))
                => /\ StoredTask(store, th[t].task).state = QUEUED
                   /\ store' = store
                   /\ \/ queue' = QueuePlus(queue, store, th[t].task)
                      \/ (queue' = queue /\ th'[t].pc = "queue_task_error")]_vars
    /\ [][\A t \in Threads :
            (th[t].pc = "queue_task_error" /\ Steps(t))
                => /\ store' = StoreWith(store, th[t].task, ERROR, "publish failed")
                   /\ queue' = queue
                   /\ th'[t].pc = "done" /\ th'[t].exc = "PublishError"]_vars
    /\ [](\A t \in Threads :
            (th[t].pc = "done" /\ th[t].exc = "PublishError")
                => /\ StoredTask(store, th[t].task).state = ERROR
                   /\ queue[Message(store, th[t].task, th[t].doc)]
                        = snap.queue[Message(store, th[t].task, th[t].doc)])

\* a publish failed after the task had been set QUEUED
C34_Witness ==
    \E t \in Threads :
        /\ th[t].pc = "done" /\ th[t].exc = "PublishError"
        /\ StoredTask(store, th[t].task).state = ERROR
        /\ StoredTask(store, th[t].task).msg = "publish failed"


\* the message of the stored task id
MessageOf(id) == TaskMessage(id, StoredTask(store, id).key, StoredTask(store, id).parent)

\* C35: every dependency task an UNFINISHED_DEPENDENCY callback created is
\* published exactly once by that callback: the run() that follows td.assign
\* finds the task QUEUED and does nothing.  (A task whose only publish raised
\* is in ERROR and was not published.)
C35_DependencyPublishedOnce ==
    /\ [](\A t \in Threads :
            (CallbackOn(t) /\ th[t].cbState = UNFINISHED_DEPENDENCY)
              => /\ (th[t].pc = "run_read" /\ th[t].ret = "callback_dep_next")
                        => StoredTask(store, th[t].task).state = QUEUED
                 /\ th[t].pc \in {"done", "callback_dep_run"}
                        => \A id \in th[t].created :
                              \/ queue[MessageOf(id)] = snap.queue[MessageOf(id)] + 1
                              \/ /\ th[t].exc = "PublishError" /\ th[t].task = id
                                 /\ StoredTask(store, id).state = ERROR
                                 /\ queue[MessageOf(id)] = snap.queue[MessageOf(id)])
    /\ [][\A t \in Threads :
            (th[t].pc = "run_read" /\ th[t].ret = "callback_dep_next" /\ Steps(t))
                => /\ th'[t].pc = "callback_dep"
                   /\ store' = store /\ queue' = queue]_vars

\* a callback has returned after creating and queueing a dependency
C35_Witness ==
    \E t \in Threads :
        /\ CallbackOn(t) /\ th[t].cbState = UNFINISHED_DEPENDENCY
        /\ th[t].pc = "done" /\ th[t].exc = "none"
        /\ th[t].created # {}
        /\ \A id \in th[t].created : queue[MessageOf(id)] = 1


\* C36: an assignTask that raised TaskAssignedError left the index as it was
\* (the task already assigned keeps its state and message), published nothing
\* and did not set the _id of the caller's Task object.
C36_RefusedAssignChangesNothing ==
    \A t \in Threads :
        (th[t].op = "assign" /\ th[t].pc = "done" /\ th[t].exc = "TaskAssignedError")
            => /\ store = snap.store
               /\ queue = snap.queue
               /\ th[t].obj # "" => tobj[th[t].obj]._id = None

\* the refused assign found the task of another object already past CREATED
C36_Witness ==
    \E t \in Threads :
        /\ th[t].op = "assign" /\ th[t].pc = "done" /\ th[t].exc = "TaskAssignedError"
        /\ th[t].obj # ""
        /\ StoredTask(store, TaskId(th[t].doc, th[t].key)).state = SUCCESS
        /\ \E o \in DOMAIN tobj : tobj[o]._id = Some(TaskId(th[t].doc, th[t].key))


\* C37: once the stored state of a task is SUCCESS, it changes only by a
\* reset() or a retry(force=True) of that task: no reply applied by callback
\* changes it.
C37_SuccessIsFinal ==
    [][\A x \in store :
         (x.state = SUCCESS /\ \E y \in store' : y.id = x.id /\ y.state # SUCCESS)
            => \E t \in Threads :
                  /\ Steps(t) /\ th[t].task = x.id
                  /\ \/ th[t].op = "reset"
                     \/ (th[t].op = "retry" /\ th[t].force)]_vars


\* no message is in a work queue or with a worker, and no reply waits for or
\* is in the hands of the callback thread
NoneOutstanding ==
    /\ \A m \in Msgs : queue[m] = 0
    /\ \A w \in Keys : wk[w].pc = "idle"
    /\ replies = <<>>
    /\ th["cb"].pc = "idle"

\* A and B, whose workers wait for each other, are both assigned
MutualPair ==
    /\ cfg.depends_on = DependsMutual
    /\ \A k \in {"A", "B"} : \E x \in store : x.key = k

\* C38: when the operators have stopped calling, the system comes to rest with
\* no message outstanding, whatever the workers reported; two tasks whose
\* workers depend on each other then both are in UNFINISHED_DEPENDENCY.
C38_Quiescence ==
    /\ <>[]NoneOutstanding
    /\ <>[](MutualPair => \A x \in store : x.key \in {"A", "B"} => x.state = UNFINISHED_DEPENDENCY)

\* the mutually dependent tasks have come to rest, each after its worker
\* reported that it waits for the other (only a reply makes a task 412)
C38_Witness ==
    /\ MutualPair /\ NoneOutstanding
    /\ \A x \in store : x.key \in {"A", "B"} => x.state = UNFINISHED_DEPENDENCY
    /\ \A t \in Threads : th[t].pc \in {"idle", "done"}


\* something of task id is on its way: a message in the work queue or with a
\* worker, a reply waiting for the callback thread or being applied by it, or
\* a _queue_task in progress that has written QUEUED and not yet returned
InFlight(id) ==
    \/ \E m \in Msgs : m.corr = id /\ queue[m] > 0
    \/ \E w \in Keys : wk[w].pc # "idle" /\ wk[w].msg.corr = id
    \/ \E i \in 1..Len(replies) : replies[i].corr = id
    \/ \E t \in Threads : /\ th[t].op = "callback" /\ th[t].cbTask = id
                          /\ th[t].pc \in {"callback_key", "callback_update"}
    \/ \E t \in Threads : /\ th[t].task = id
                          /\ th[t].pc \in {"queue_task_publish", "queue_task_error"}

ReportedDocument(t) == StoredTask(snap.store, th[t].cbTask).parent

\* C40: while callback(task_id, response) runs and when it has ended, the
\* tasks and messages of every other document are as they were when it began;
\* no task is removed; of its own document only the reporting task, the
\* siblings it ran and the dependencies it created differ, and the siblings it
\* ran are QUEUED when it ends.
C40_CallbackStaysInDocument ==
    \A t \in Threads :
        (th[t].op = "callback" /\ ~ EsMissing(snap.store, th[t].cbTask))
            => LET d == ReportedDocument(t)
                   touched == {th[t].cbTask} \cup th[t].ran \cup th[t].created
               IN  /\ \A x \in store : x.parent # d => x \in snap.store
                   /\ \A m \in Msgs : m.corr \notin touched => queue[m] = snap.queue[m]
                   /\ \A id \in touched : \A x \in store : x.id = id => x.parent = d
                   /\ \A x \in snap.store : \E y \in store : y.id = x.id
                   /\ \A x \in store : x.id \notin touched => x \in snap.store
                   /\ (th[t].pc = "done" /\ th[t].exc = "none")
                        => \A id \in th[t].ran : StoredTask(store, id).state = QUEUED

\* the callback of a SUCCESS has run the waiting sibling of its document, and
\* the other document has a task the cascade would run were it of this one
C40_Witness ==
    \E t \in Threads :
        /\ th[t].op = "callback" /\ th[t].pc = "done" /\ th[t].exc = "none"
        /\ th[t].cbState = SUCCESS /\ th[t].ran # {}
        /\ ~ EsMissing(snap.store, th[t].cbTask)
        /\ \E x \in store :
             /\ x.parent # ReportedDocument(t)
             /\ CascadeRuns([id |-> x.id, state |-> x.state], th[t].cbTask, th[t].cbState)

====
